---------------------------- MODULE Spec2Model ----------------------------
(***************************************************************************)
(* Timetable synchronisation engine of ots-server: the credential vault    *)
(* (lib/encryption), the job scheduler and the sync executor               *)
(* (queue/index.ts) and the timetable endpoints of the HTTP server that    *)
(* drive them.                                                             *)
(*                                                                         *)
(* Text is a sequence of UTF-16 code units (numbers), bytes are numbers in *)
(* 0..255, timestamps are <<year, month, day>> with month 0-based as in    *)
(* the JavaScript Date constructor.                                        *)
(***************************************************************************)
EXTENDS Integers, Sequences, FiniteSets, Bags, TLC

(***************************************************************************)
(* Bounds of the model.                                                    *)
(***************************************************************************)
\* longest plaintext handed to the vault on its own
MaxTextLen == 2
\* timetable ids the store ever hands out
MaxTimetables == 2
\* jobs the worker takes in one behaviour
MaxSyncs == 2
\* jobs waiting at once when triggerImmediateSync is called on its own
MaxWaiting == 1
\* operations (runs and requests) in flight at once in the concurrent deployment
MaxInFlight == 2
\* calendar years after 2023 a stand-alone window is computed in
MaxYears == 2

(***************************************************************************)
(* Generic helpers.                                                        *)
(***************************************************************************)
RECURSIVE Flatten(_)
Flatten(ss) == IF ss = <<>> THEN <<>> ELSE Head(ss) \o Flatten(Tail(ss))

RECURSIVE XorBits(_, _, _)
XorBits(a, b, n) ==
    IF n = 0 THEN 0
    ELSE (((a % 2) + (b % 2)) % 2) + 2 * XorBits(a \div 2, b \div 2, n - 1)

Xor(a, b) == XorBits(a, b, 8)

SeqsUpTo(S, n) == UNION {[1..k -> S] : k \in 0..n}

(***************************************************************************)
(* Text encodings used by the vault: Buffer/'utf8' and 'hex'.              *)
(***************************************************************************)
IsHighSurrogate(c) == c \in 55296..56319
IsLowSurrogate(c) == c \in 56320..57343

\* U+FFFD, what the encoder writes for a lone surrogate: EF BF BD
ReplacementBytes == <<239, 191, 189>>

Utf8OfCodePoint(cp) ==
    IF cp < 128 THEN <<cp>>
    ELSE IF cp < 2048 THEN <<192 + (cp \div 64), 128 + (cp % 64)>>
    ELSE IF cp < 65536
         THEN <<224 + (cp \div 4096), 128 + ((cp \div 64) % 64), 128 + (cp % 64)>>
    ELSE <<240 + (cp \div 262144), 128 + ((cp \div 4096) % 64),
           128 + ((cp \div 64) % 64), 128 + (cp % 64)>>

\* cipher.update(text, "utf8", ...): the bytes of a JavaScript string
RECURSIVE Utf8Encode(_)
Utf8Encode(text) ==
    IF text = <<>> THEN <<>>
    ELSE LET c == Head(text) IN
         IF IsHighSurrogate(c) /\ Len(text) >= 2 /\ IsLowSurrogate(text[2])
         THEN Utf8OfCodePoint(65536 + (c - 55296) * 1024 + (text[2] - 56320))
                \o Utf8Encode(Tail(Tail(text)))
         ELSE IF IsHighSurrogate(c) \/ IsLowSurrogate(c)
         THEN ReplacementBytes \o Utf8Encode(Tail(text))
         ELSE Utf8OfCodePoint(c) \o Utf8Encode(Tail(text))

IsCont(bs, i) == i <= Len(bs) /\ bs[i] \in 128..191

UnitsOfCodePoint(cp) ==
    IF cp < 65536 THEN <<cp>>
    ELSE <<55296 + ((cp - 65536) \div 1024), 56320 + ((cp - 65536) % 1024)>>

\* decipher.update(..., "utf8"): the string of a byte sequence; a byte that
\* starts no well-formed sequence decodes to U+FFFD
RECURSIVE Utf8Decode(_)
Utf8Decode(bs) ==
    IF bs = <<>> THEN <<>>
    ELSE LET b == Head(bs) IN
         IF b < 128 THEN <<b>> \o Utf8Decode(Tail(bs))
         ELSE IF b \in 194..223 /\ IsCont(bs, 2)
         THEN <<(b - 192) * 64 + (bs[2] - 128)>> \o Utf8Decode(SubSeq(bs, 3, Len(bs)))
         ELSE IF b \in 224..239 /\ IsCont(bs, 2) /\ IsCont(bs, 3)
                 /\ (b - 224) * 4096 + (bs[2] - 128) * 64 + (bs[3] - 128) >= 2048
                 /\ (b - 224) * 4096 + (bs[2] - 128) * 64 + (bs[3] - 128) \notin 55296..57343
         THEN <<(b - 224) * 4096 + (bs[2] - 128) * 64 + (bs[3] - 128)>>
                \o Utf8Decode(SubSeq(bs, 4, Len(bs)))
         ELSE IF b \in 240..244 /\ IsCont(bs, 2) /\ IsCont(bs, 3) /\ IsCont(bs, 4)
                 /\ (b - 240) * 262144 + (bs[2] - 128) * 4096
                      + (bs[3] - 128) * 64 + (bs[4] - 128) \in 65536..1114111
         THEN UnitsOfCodePoint((b - 240) * 262144 + (bs[2] - 128) * 4096
                                  + (bs[3] - 128) * 64 + (bs[4] - 128))
                \o Utf8Decode(SubSeq(bs, 5, Len(bs)))
         ELSE <<65533>> \o Utf8Decode(Tail(bs))

HexChars == <<48, 49, 50, 51, 52, 53, 54, 55, 56, 57, 97, 98, 99, 100, 101, 102>>

\* buffer.toString("hex") and the "hex" output encoding of a cipher
HexEncode(bs) ==
    Flatten([i \in 1..Len(bs) |->
                <<HexChars[(bs[i] \div 16) + 1], HexChars[(bs[i] % 16) + 1]>>])

HexVal(c) ==
    IF c \in 48..57 THEN c - 48
    ELSE IF c \in 97..102 THEN c - 87
    ELSE IF c \in 65..70 THEN c - 55
    ELSE -1

\* Buffer.from(s, "hex"): decoding stops at the first pair that is not hex
RECURSIVE HexDecode(_)
HexDecode(s) ==
    IF Len(s) < 2 \/ HexVal(s[1]) < 0 \/ HexVal(s[2]) < 0 THEN <<>>
    ELSE <<HexVal(s[1]) * 16 + HexVal(s[2])>> \o HexDecode(Tail(Tail(s)))

\* the code unit of ":"
Colon == 58

\* String.prototype.split with a one-character separator
RECURSIVE Split(_, _)
Split(s, sep) ==
    IF \A i \in 1..Len(s) : s[i] # sep THEN <<s>>
    ELSE LET k == CHOOSE i \in 1..Len(s) :
                      s[i] = sep /\ \A j \in 1..(i - 1) : s[j] # sep
         IN <<SubSeq(s, 1, k - 1)>> \o Split(SubSeq(s, k + 1, Len(s)), sep)


(***************************************************************************)
(* Credential vault: AES-256-GCM as a counter-mode stream cipher with an   *)
(* authentication tag over key, IV and ciphertext.  The tag is modelled as *)
(* an ideal MAC: for one key and IV, distinct ciphertexts of up to 15      *)
(* bytes have distinct tags.                                               *)
(***************************************************************************)
Ok(v) == [ok |-> TRUE, value |-> v, error |-> ""]
Thrown(e) == [ok |-> FALSE, value |-> <<>>, error |-> e]

VARIABLE env         \* process.env.ENCRYPTION_KEY: set or not, and its value

\* the environment without the variable
NoKey == [set |-> FALSE, value |-> <<>>]

\* the development fallback key "0123456789abcdef0123456789abcdef"
FallbackKey == HexChars \o HexChars

\* process.env.ENCRYPTION_KEY || fallback: an unset or empty variable is falsy
ENCRYPTION_KEY == IF env.set /\ env.value # <<>> THEN env.value ELSE FallbackKey

\* the check at module load: ENCRYPTION_KEY.length !== 32 throws
KeyCheck == Len(ENCRYPTION_KEY) = 32

KeyLength == 32
IvLength == 16
TagLength == 16

Mix(key, iv, i) ==
    (key[((i - 1) % Len(key)) + 1] * 31 + iv[((i - 1) % Len(iv)) + 1] * 7 + 13 * i) % 256

\* the counter-mode transformation, the same for encryption and decryption
Ctr(key, iv, bs) == [i \in 1..Len(bs) |-> Xor(bs[i], Mix(key, iv, i))]

RECURSIVE TagField(_, _, _)
TagField(ct, j, i) ==
    IF i > Len(ct) THEN 0
    ELSE Xor(IF ((i - 1) % (TagLength - 1)) + 2 = j THEN ct[i] ELSE 0,
             TagField(ct, j, i + 1))

AuthTag(key, iv, ct) ==
    [j \in 1..TagLength |->
        Xor(Mix(key, iv, 100 + j),
            IF j = 1 THEN Len(ct) % 256 ELSE TagField(ct, j, 1))]

\* crypto.createCipheriv / createDecipheriv accept this key and IV
CipherAccepts(key, iv) == Len(key) = KeyLength /\ Len(iv) >= 1

\* decipher.setAuthTag accepts a tag of one of these lengths
ValidTagLengths == {4, 8, 12, 13, 14, 15, 16}

\* encrypt(text) with the 16 random bytes it drew
encrypt(text, iv) ==
    LET key == Utf8Encode(ENCRYPTION_KEY)
        ct  == Ctr(key, iv, Utf8Encode(text))
    IN IF ~CipherAccepts(key, iv) THEN Thrown("Invalid key length")
       ELSE Ok([encryptedData |-> HexEncode(ct) \o <<Colon>> \o HexEncode(AuthTag(key, iv, ct)),
                iv |-> HexEncode(iv)])

decrypt(encryptedData, ivHex) ==
    LET parts         == Split(encryptedData, Colon)
        encryptedText == parts[1]
        authTagHex    == IF Len(parts) >= 2 THEN parts[2] ELSE <<>>
        key           == Utf8Encode(ENCRYPTION_KEY)
        iv            == HexDecode(ivHex)
        authTag       == HexDecode(authTagHex)
        ct            == HexDecode(encryptedText)
    IN IF encryptedText = <<>> \/ authTagHex = <<>>
       THEN Thrown("Invalid encrypted data format")
       ELSE IF ~CipherAccepts(key, iv) THEN Thrown("Invalid key length")
       ELSE IF Len(authTag) \notin ValidTagLengths
       THEN Thrown("Invalid authentication tag length")
       ELSE IF authTag # SubSeq(AuthTag(key, iv, ct), 1, Len(authTag))
       THEN Thrown("Unsupported state or unable to authenticate data")
       ELSE Ok(Utf8Decode(Ctr(key, iv, ct)))


(***************************************************************************)
(* Dates and the fetch window.                                             *)
(***************************************************************************)
IsLeap(y) == (y % 4 = 0 /\ y % 100 # 0) \/ y % 400 = 0

DaysInMonth(y, m) ==
    IF m = 1 THEN (IF IsLeap(y) THEN 29 ELSE 28)
    ELSE IF m \in {3, 5, 8, 10} THEN 30
    ELSE 31

\* new Date(y, m, d) with a day past the end of the month
RECURSIVE NormalizeDate(_, _, _)
NormalizeDate(y, m, d) ==
    IF d <= DaysInMonth(y, m) THEN <<y, m, d>>
    ELSE IF m = 11 THEN NormalizeDate(y + 1, 0, d - DaysInMonth(y, m))
    ELSE NormalizeDate(y, m + 1, d - DaysInMonth(y, m))

DateLess(a, b) ==
    \/ a[1] < b[1]
    \/ a[1] = b[1] /\ a[2] < b[2]
    \/ a[1] = b[1] /\ a[2] = b[2] /\ a[3] < b[3]

DateGte(a, b) == ~DateLess(a, b)

\* queue/index.ts: before September the academic year started last year
\* the comparison off by one month: September counted with the year before
StartYearLate(now) == IF now[2] <= 8 THEN now[1] - 1 ELSE now[1]

StartYear(now) == IF now[2] < 8 THEN now[1] - 1 ELSE now[1]

WindowFrom(now) == <<StartYear(now), 8, 1>>

\* to.setDate(to.getDate() + 14) on August 30th
WindowTo(now) == NormalizeDate(StartYear(now) + 1, 7, 30 + 14)

(***************************************************************************)
(* The values the model draws from.                                        *)
(***************************************************************************)
TimetableIds == 1..MaxTimetables
Workers == {1, 2}
Callers == {1, 2}
Users == {"u1"}
NoSchool == "null"

\* the wall clock: 2024-03-01, then 2024-10-01
Times == << <<2024, 2, 1>>, <<2024, 9, 1>> >>

NoDate == <<>>
NoHash == <<>>

\* what a portal may show: an event of 2023-09-01 (the first day of the window
\* of 2023/24) with a stable hash, one of 2024-10-10 without a hash, one of
\* 2023-08-15 (before every window)
Math == [hash |-> <<"h", 1>>, subject |-> "math", start |-> <<2023, 8, 1>>]
Art == [hash |-> NoHash, subject |-> "art", start |-> <<2024, 9, 10>>]
Gym == [hash |-> <<"h", 3>>, subject |-> "gym", start |-> <<2023, 7, 15>>]

\* the lists a provider's getSchedule may return
Responses == { <<>>, <<Math, Art>>, <<Gym, Math>> }

\* intervals scheduleTimetableSync is called with, in minutes
Intervals == {15, 60}

\* the syncInterval of a create request: the default of the handler
RequestIntervals == {60}

\* the serialized credentials {identifier, password} of a request
CredentialTexts == { <<233, 97>> }

\* the bytes crypto.randomBytes(16) may return
IvOf(seed) == [i \in 1..IvLength |-> (seed * 17 + i * 29) % 256]
IVs == {IvOf(1), IvOf(2), IvOf(3)}

\* the bytes drawn for the credentials of a create request
RequestIVs == {IvOf(1)}

\* providers/index.ts
providers == {"wigor"}
\* a lookup that falls back to the registered providers
getProviderOrAny(id) == providers

getProvider(id) == {p \in providers : p = id}

(***************************************************************************)
(* The public API: keys and the request being served.                      *)
(***************************************************************************)
VARIABLES
    apiKeys,         \* the API keys of the authentication system, by key string
    read,            \* the read request in progress
    oauth,           \* the rows of OauthClientTimetableAccess, OauthConsent, OauthAccessToken
    grant,           \* the grant-saving or revoking request in progress
    client           \* the dashboard's handleAddTimetable

NoOauth == [accesses |-> {}, consents |-> {}, tokens |-> {}]
IdleGrant ==
    [pc |-> "idle", op |-> "none", userId |-> "", clientId |-> "", timetableIds |-> {},
     status |-> 0]

IdleClient == [pc |-> "idle", newTimetableId |-> 0]

NoApiKeys == [k \in {} |-> {}]
NoApiKeyUser == [userId |-> "", timetableIds |-> {}]
IdleRead ==
    [pc |-> "idle", route |-> "none", id |-> 0, key |-> "",
     clientId |-> "", apiKeyUser |-> NoApiKeyUser, found |-> {}, syncing |-> {}, status |-> 0,
     body |-> {}]

(***************************************************************************)
(* State.                                                                  *)
(***************************************************************************)
VARIABLES
    boot,            \* "starting" until queue/index.ts has been evaluated
    timetableQueue,  \* TRUE when the Queue object exists
    timetableWorker, \* TRUE when the Worker was started
    inFlightLimit,   \* operations the deployment runs at once
    clock,           \* index of the current time in Times
    timetables,      \* rows of Timetable
    credentials,     \* rows of TimetableCredentials
    courses,         \* bag of rows of Course
    nextId,          \* next timetable id
    uuids,           \* values crypto.randomUUID() has returned so far
    syncs,           \* jobs taken so far
    repeatables,     \* the broker's repeatable jobs
    waiting,         \* the broker's waiting jobs, a bag
    run,             \* per worker: the performSync invocation in progress
    call,            \* per caller: the request or call in progress
    lastSync,        \* per timetable: what the last successful run saw and left
    vault,           \* a stand-alone use of encrypt and decrypt
    window           \* a stand-alone computation of the fetch window

vars == <<env, window, client, oauth, grant, apiKeys, read, boot, timetableQueue, timetableWorker, inFlightLimit, clock, timetables,
          credentials, courses, nextId, uuids, syncs, repeatables, waiting, run,
          call, lastSync, vault>>

now == Times[clock]

\* what an invocation gave its caller: an object, nothing (undefined) or an error
NoResult == [kind |-> "none", success |-> FALSE, coursesCount |-> 0, message |-> ""]
ReturnedUndefined ==
    [kind |-> "undefined", success |-> FALSE, coursesCount |-> 0, message |-> ""]
Returned(success, n, msg) ==
    [kind |-> "returned", success |-> success, coursesCount |-> n, message |-> msg]
Threw(msg) == [kind |-> "thrown", success |-> FALSE, coursesCount |-> 0, message |-> msg]

NoSync == [done |-> FALSE, fetched |-> <<>>, from |-> NoDate, after |-> EmptyBag]

\* the store as an invocation found it when it loaded the timetable
NoBefore == [courses |-> EmptyBag, timetables |-> {}]

NoWindow == [done |-> FALSE, now |-> NoDate, from |-> NoDate, to |-> NoDate]

IdleRun ==
    [pc |-> "idle", via |-> "none", timetableId |-> 0, timetable |-> {},
     now |-> NoDate, from |-> NoDate, to |-> NoDate, fetched |-> <<>>,
     repeatableJobs |-> {}, removed |-> {}, result |-> NoResult, ops |-> <<>>,
     before |-> NoBefore, prev |-> NoSync]

IdleCall ==
    [pc |-> "idle", op |-> "none", timetableId |-> 0, interval |-> 0, user |-> "",
     creds |-> <<>>, iv |-> <<>>, repeatableJobs |-> {}, removed |-> {},
     result |-> NoResult, status |-> 0]

\* workers and request slots are interchangeable: the lowest idle one is used
FirstIdleWorker(w) == run[w].pc = "idle" /\ \A v \in Workers : v < w => run[v].pc # "idle"
FirstIdleCaller(c) == call[c].pc = "idle" /\ \A d \in Callers : d < c => call[d].pc # "idle"

InFlight ==
    Cardinality({w \in Workers : run[w].pc # "idle"})
      + Cardinality({c \in Callers : call[c].pc # "idle"})

Init ==
    /\ env = NoKey
    /\ window = NoWindow
    /\ apiKeys = NoApiKeys
    /\ read = IdleRead
    /\ oauth = NoOauth
    /\ grant = IdleGrant
    /\ client = IdleClient
    /\ boot = "starting"
    /\ timetableQueue = FALSE
    /\ timetableWorker = FALSE
    /\ inFlightLimit = MaxInFlight
    /\ clock = 1
    /\ timetables = {}
    /\ credentials = {}
    /\ courses = EmptyBag
    /\ nextId = 1
    /\ uuids = 0
    /\ syncs = 0
    /\ repeatables = {}
    /\ waiting = EmptyBag
    /\ run = [w \in Workers |-> IdleRun]
    /\ call = [c \in Callers |-> IdleCall]
    /\ lastSync = [t \in TimetableIds |-> NoSync]
    /\ vault = [phase |-> "idle", text |-> <<>>, enc |-> Thrown(""), dec |-> Thrown("")]


(***************************************************************************)
(* Storage and broker primitives.                                          *)
(***************************************************************************)
RECURSIVE BagOfSeq(_)
BagOfSeq(rows) ==
    IF rows = <<>> THEN EmptyBag ELSE SetToBag({Head(rows)}) (+) BagOfSeq(Tail(rows))

\* the rows of a bag that are in a set, with their counts
BagKeep(bag, rows) == [r \in rows \cap BagToSet(bag) |-> bag[r]]

JobId(timetableId) == <<"sync", timetableId>>

\* the key under which the broker files a repeatable job
RepeatKey(name, id, every) == <<name, id, every>>

Repeatable(timetableId, every) ==
    [key |-> RepeatKey("sync", JobId(timetableId), every), name |-> "sync",
     id |-> JobId(timetableId), every |-> every, timetableId |-> timetableId]

\* queue.removeRepeatableByKey
RemoveByKey(table, key) == {r \in table : r.key # key}

\* queue.add with a repeat option: one entry per key
AddRepeatable(table, r) == RemoveByKey(table, r.key) \cup {r}

EntityCourses(timetableId) ==
    BagKeep(courses, {r \in BagToSet(courses) : r.timetableId = timetableId})

(***************************************************************************)
(* Start of the process: the top-level statements of queue/index.ts.       *)
(***************************************************************************)
\* the worker is created only when connection and queue both exist
WorkerStarts(redisConnection, queue) == redisConnection /\ queue

Startup ==
    /\ boot = "starting"
    /\ \E reachable \in BOOLEAN :
          /\ timetableQueue' = reachable
          /\ timetableWorker' = WorkerStarts(reachable, timetableQueue')
    /\ boot' = "up"
    /\ UNCHANGED <<env, window, client, oauth, grant, apiKeys, read, inFlightLimit, clock, timetables, credentials, courses, nextId,
                   uuids, syncs, repeatables, waiting, run, call, lastSync, vault>>

(***************************************************************************)
(* performSync.  One action per awaited operation; the synchronous code    *)
(* that follows an await belongs to the action of that await.              *)
(***************************************************************************)
\* entry of performSync
BeginSync(timetableId, via) ==
    IF ~timetableQueue
    THEN [IdleRun EXCEPT !.pc = "done", !.via = via, !.timetableId = timetableId,
                         !.result = Returned(FALSE, 0, "Queue not initialized"),
                         !.ops = <<"skipped">>]
    ELSE [IdleRun EXCEPT !.pc = "findUnique", !.via = via, !.timetableId = timetableId]

Stored(timetableId) == \E t \in timetables : t.id = timetableId

\* the worker's processor: a waiting job is handed to performSync
TakeJob(w) ==
    /\ boot = "up"
    /\ timetableWorker
    /\ FirstIdleWorker(w)
    /\ InFlight < inFlightLimit
    /\ syncs < MaxSyncs
    /\ \E j \in BagToSet(waiting) :
          /\ waiting' = waiting (-) SetToBag({j})
          /\ run' = [run EXCEPT ![w] = BeginSync(j.timetableId, "job")]
    /\ syncs' = syncs + 1
    /\ UNCHANGED <<env, window, client, oauth, grant, apiKeys, read, boot, timetableQueue, timetableWorker, inFlightLimit, clock,
                   timetables, credentials, courses, nextId, uuids, repeatables,
                   call, lastSync, vault>>

\* the processor is handed a job of a timetable that is no longer stored; such
\* a run stores nothing, and the worker takes any number of them
TakeJobOfDeleted(w) ==
    /\ boot = "up"
    /\ timetableWorker
    /\ FirstIdleWorker(w)
    /\ InFlight < inFlightLimit
    /\ \E j \in BagToSet(waiting) :
          /\ ~Stored(j.timetableId)
          /\ waiting' = waiting (-) SetToBag({j})
          /\ run' = [run EXCEPT ![w] = BeginSync(j.timetableId, "job")]
    /\ UNCHANGED <<env, window, client, oauth, grant, apiKeys, read, boot, timetableQueue, timetableWorker, inFlightLimit,
                   clock, timetables, credentials, courses, nextId, uuids, syncs,
                   repeatables, call, lastSync, vault>>

\* performSync called as the exported function
DirectSync(w) ==
    /\ boot = "up"
    /\ FirstIdleWorker(w)
    /\ InFlight < inFlightLimit
    /\ \E id \in TimetableIds : run' = [run EXCEPT ![w] = BeginSync(id, "direct")]
    /\ UNCHANGED <<env, window, client, oauth, grant, apiKeys, read, boot, timetableQueue, timetableWorker, inFlightLimit, clock,
                   timetables, credentials, courses, nextId, uuids, syncs,
                   repeatables, waiting, call, lastSync, vault>>

\* the same with the credentials decrypted before the provider is looked up
PrepareDecryptFirst(t, c, at) ==
    LET dec == decrypt(c.encryptedCredentials, c.iv) IN
    IF ~dec.ok
    THEN [ok |-> FALSE, error |-> dec.error, ops |-> <<"decrypt">>,
          from |-> NoDate, to |-> NoDate]
    ELSE IF getProvider(t.providerId) = {}
    THEN [ok |-> FALSE, error |-> "Provider not found", ops |-> <<"decrypt", "getProvider">>,
          from |-> NoDate, to |-> NoDate]
    ELSE [ok |-> TRUE, error |-> "", ops |-> <<"decrypt", "getProvider", "window">>,
          from |-> WindowFrom(at), to |-> WindowTo(at)]

\* lines 79-108: provider lookup, decryption, window; what is left to await
Prepare(t, c, at) ==
    LET dec == decrypt(c.encryptedCredentials, c.iv) IN
    IF getProvider(t.providerId) = {}
    THEN [ok |-> FALSE, error |-> "Provider not found", ops |-> <<"getProvider">>,
          from |-> NoDate, to |-> NoDate]
    ELSE IF ~dec.ok
    THEN [ok |-> FALSE, error |-> dec.error, ops |-> <<"getProvider", "decrypt">>,
          from |-> NoDate, to |-> NoDate]
    ELSE [ok |-> TRUE, error |-> "", ops |-> <<"getProvider", "decrypt", "window">>,
          from |-> WindowFrom(at), to |-> WindowTo(at)]

\* a catch block that logs and returns a failure object instead of rethrowing
FailSwallowed(r, msg, ops) ==
    [r EXCEPT !.pc = "done", !.result = Returned(FALSE, 0, msg), !.ops = @ \o ops]

\* the catch block: log and rethrow
Fail(r, msg, ops) == [r EXCEPT !.pc = "done", !.result = Threw(msg), !.ops = @ \o ops]

FindUnique(w) ==
    /\ run[w].pc = "findUnique"
    /\ LET r  == run[w]
           ts == {t \in timetables : t.id = r.timetableId}
           cs == {c \in credentials : c.timetableId = r.timetableId}
           b  == [courses |-> courses, timetables |-> timetables]
       IN IF ts = {} \/ cs = {}
          THEN run' = [run EXCEPT ![w] = [r EXCEPT !.pc = "getRepeatableJobs",
                                                   !.before = b,
                                                   !.ops = @ \o <<"findUnique">>]]
          ELSE LET t == CHOOSE x \in ts : TRUE
                   c == CHOOSE x \in cs : TRUE
                   p == Prepare(t, c, now)
               IN IF ~p.ok
                  THEN run' = [run EXCEPT ![w] =
                                  Fail([r EXCEPT !.timetable = ts, !.before = b],
                                       p.error, <<"findUnique">> \o p.ops)]
                  ELSE run' = [run EXCEPT ![w] =
                                  [r EXCEPT !.pc = "getSchedule", !.timetable = ts,
                                            !.before = b, !.now = now,
                                            !.from = p.from, !.to = p.to,
                                            !.ops = @ \o <<"findUnique">> \o p.ops]]
    /\ UNCHANGED <<env, window, client, oauth, grant, apiKeys, read, boot, timetableQueue, timetableWorker, inFlightLimit, clock,
                   timetables, credentials, courses, nextId, uuids, syncs,
                   repeatables, waiting, call, lastSync, vault>>

\* cleanup for a missing timetable: list the repeatable jobs
GetRepeatableJobs(w) ==
    /\ run[w].pc = "getRepeatableJobs"
    /\ run' = [run EXCEPT ![w] = [@ EXCEPT !.pc = "removeRepeatable",
                                           !.repeatableJobs = repeatables,
                                           !.ops = @ \o <<"getRepeatableJobs">>]]
    /\ UNCHANGED <<env, window, client, oauth, grant, apiKeys, read, boot, timetableQueue, timetableWorker, inFlightLimit, clock,
                   timetables, credentials, courses, nextId, uuids, syncs,
                   repeatables, waiting, call, lastSync, vault>>

\* the loop looking for one-off jobs only
ToRemoveImmediate(listing, timetableId) ==
    {j \in listing : j.id = JobId(timetableId) /\ j.name = "sync-immediate"}

\* the comparison of the loop inverted: job.id !== `sync-${timetableId}`
ToRemoveOthers(listing, timetableId) == {j \in listing : j.id # JobId(timetableId)}

\* if (job.id === `sync-${timetableId}`): the listed jobs the loop removes
ToRemove(listing, timetableId) == {j \in listing : j.id = JobId(timetableId)}

\* the loop takes the listed jobs in the order of the listing
NextToRemove(todo) == CHOOSE j \in todo : \A k \in todo : j.every <= k.every

\* cleanup: one removeRepeatableByKey per matching job, then the soft result
RemoveRepeatable(w) ==
    /\ run[w].pc = "removeRepeatable"
    /\ LET r == run[w] IN
       IF ToRemove(r.repeatableJobs, r.timetableId) \ r.removed = {}
       THEN /\ run' = [run EXCEPT ![w] =
                          [r EXCEPT !.pc = "done",
                                    !.result = Returned(FALSE, 0, "Timetable not found")]]
            /\ UNCHANGED repeatables
       ELSE LET j == NextToRemove(ToRemove(r.repeatableJobs, r.timetableId) \ r.removed) IN
            /\ repeatables' = RemoveByKey(repeatables, j.key)
            /\ run' = [run EXCEPT ![w] =
                          [r EXCEPT !.removed = @ \cup {j},
                                    !.ops = @ \o <<"removeRepeatableByKey">>]]
    /\ UNCHANGED <<env, window, client, oauth, grant, apiKeys, read, boot, timetableQueue, timetableWorker, inFlightLimit, clock,
                   timetables, credentials, courses, nextId, uuids, syncs, waiting,
                   call, lastSync, vault>>

ProviderErrors == {"portal unreachable"}

\* await provider.getSchedule(credentials, from, to)
GetSchedule(w) ==
    /\ run[w].pc = "getSchedule"
    /\ \/ \E resp \in Responses :
             run' = [run EXCEPT ![w] = [@ EXCEPT !.pc = "deleteMany", !.fetched = resp,
                                                 !.ops = @ \o <<"getSchedule">>]]
       \/ \E e \in ProviderErrors :
             run' = [run EXCEPT ![w] = Fail(@, e, <<"getSchedule">>)]
    /\ UNCHANGED <<env, window, client, oauth, grant, apiKeys, read, boot, timetableQueue, timetableWorker, inFlightLimit, clock,
                   timetables, credentials, courses, nextId, uuids, syncs,
                   repeatables, waiting, call, lastSync, vault>>

\* the filter without its timetable
DeleteMatchesAnyTimetable(row, timetableId, from) == DateGte(row.start, from)

\* the filter without its start condition
DeleteMatchesAll(row, timetableId, from) == row.timetableId = timetableId

\* the filter with gt in place of gte
DeleteMatchesGt(row, timetableId, from) ==
    row.timetableId = timetableId /\ DateLess(from, row.start)

\* the filter with lte in place of gte
DeleteMatchesLte(row, timetableId, from) ==
    row.timetableId = timetableId /\ DateGte(from, row.start)

\* where: { timetableId, start: { gte: from } }
DeleteMatches(row, timetableId, from) ==
    row.timetableId = timetableId /\ DateGte(row.start, from)

\* the update reached without the createMany
AfterDeleteNoInsert(fetched) == "update"

\* createMany called whatever was fetched
AfterDeleteAlways(fetched) == "createMany"

\* if (courses.length > 0) createMany; then the update
AfterDelete(fetched) == IF Len(fetched) > 0 THEN "createMany" ELSE "update"

\* await prisma.course.deleteMany
DeleteMany(w) ==
    /\ run[w].pc = "deleteMany"
    /\ LET r == run[w] IN
       /\ courses' = BagKeep(courses, {row \in BagToSet(courses) :
                                          ~DeleteMatches(row, r.timetableId, r.from)})
       /\ run' = [run EXCEPT ![w] =
                     [r EXCEPT !.pc = AfterDelete(r.fetched),
                               !.ops = @ \o <<"deleteMany">>]]
    /\ UNCHANGED <<env, window, client, oauth, grant, apiKeys, read, boot, timetableQueue, timetableWorker, inFlightLimit, clock,
                   timetables, credentials, nextId, uuids, syncs, repeatables,
                   waiting, call, lastSync, vault>>

\* c.hash || crypto.randomUUID(), the k-th value generated so far
HashOf(c, k) == IF c.hash = NoHash THEN <<"uuid", k>> ELSE c.hash

\* courses.map(...): rows of the fetched events; n values were generated before
RECURSIVE NewRows(_, _, _)
NewRows(fetched, timetableId, n) ==
    IF fetched = <<>> THEN <<>>
    ELSE LET c == Head(fetched)
             k == IF c.hash = NoHash THEN n + 1 ELSE n
         IN <<[timetableId |-> timetableId, hash |-> HashOf(c, k),
               subject |-> c.subject, start |-> c.start]>>
              \o NewRows(Tail(fetched), timetableId, k)

Generated(fetched) == Cardinality({i \in 1..Len(fetched) : fetched[i].hash = NoHash})

\* a Course table without the foreign key
ForeignKeyUnchecked(timetableId) == TRUE

\* Course.timetableId references Timetable.id
ForeignKeyHolds(timetableId) == Stored(timetableId)

\* await prisma.course.createMany; the foreign key rejects rows of a deleted timetable
CreateMany(w) ==
    /\ run[w].pc = "createMany"
    /\ LET r == run[w] IN
       IF ForeignKeyHolds(r.timetableId)
       THEN /\ courses' = courses (+) BagOfSeq(NewRows(r.fetched, r.timetableId, uuids))
            /\ uuids' = uuids + Generated(r.fetched)
            /\ run' = [run EXCEPT ![w] = [r EXCEPT !.pc = "update",
                                                   !.ops = @ \o <<"createMany">>]]
       ELSE /\ run' = [run EXCEPT ![w] =
                          Fail(r, "Foreign key constraint violated", <<"createMany">>)]
            /\ UNCHANGED <<courses, uuids>>
    /\ UNCHANGED <<env, window, client, oauth, grant, apiKeys, read, boot, timetableQueue, timetableWorker, inFlightLimit, clock,
                   timetables, credentials, nextId, syncs, repeatables, waiting,
                   call, lastSync, vault>>

\* await prisma.timetable.update({ data: { lastSyncedAt: new Date() } }), then return
UpdateLastSynced(w) ==
    /\ run[w].pc = "update"
    /\ LET r == run[w] IN
       IF \E t \in timetables : t.id = r.timetableId
       THEN /\ timetables' = {IF t.id = r.timetableId
                                 THEN [t EXCEPT !.lastSyncedAt = now] ELSE t
                              : t \in timetables}
            /\ run' = [run EXCEPT ![w] =
                          [r EXCEPT !.pc = "done",
                                    !.result = Returned(TRUE, Len(r.fetched), ""),
                                    !.ops = @ \o <<"update">>,
                                    !.prev = lastSync[r.timetableId]]]
            /\ lastSync' = [lastSync EXCEPT ![r.timetableId] =
                               [done |-> TRUE, fetched |-> r.fetched, from |-> r.from,
                                after |-> EntityCourses(r.timetableId)]]
       ELSE /\ run' = [run EXCEPT ![w] = Fail(r, "Record to update not found", <<"update">>)]
            /\ UNCHANGED <<timetables, lastSync>>
    /\ UNCHANGED <<env, window, client, oauth, grant, apiKeys, read, boot, timetableQueue, timetableWorker, inFlightLimit, clock,
                   credentials, courses, nextId, uuids, syncs, repeatables, waiting,
                   call, vault>>

\* the invocation is over: the broker marks the job completed or failed
FinishSync(w) ==
    /\ run[w].pc = "done"
    /\ run' = [run EXCEPT ![w] = IdleRun]
    /\ UNCHANGED <<env, window, client, oauth, grant, apiKeys, read, boot, timetableQueue, timetableWorker, inFlightLimit, clock,
                   timetables, credentials, courses, nextId, uuids, syncs,
                   repeatables, waiting, call, lastSync, vault>>


(***************************************************************************)
(* The scheduler helpers, scheduleTimetableSync and triggerImmediateSync,  *)
(* called by POST /api/timetables or on their own.                         *)
(***************************************************************************)
\* the interval taken for seconds
EveryMsOfSeconds(intervalMinutes) == intervalMinutes * 1000

\* minutes to milliseconds
EveryMs(intervalMinutes) == intervalMinutes * 60 * 1000

\* what follows the scheduling in the caller: the 202 of the create request,
\* or the return of the helper
AfterSchedule(k) ==
    IF k.op = "create" THEN [k EXCEPT !.pc = "done", !.status = 202]
    ELSE [k EXCEPT !.pc = "done", !.result = ReturnedUndefined]

\* entry of scheduleTimetableSync
EnterSchedule(k) ==
    IF ~timetableQueue THEN AfterSchedule(k) ELSE [k EXCEPT !.pc = "scheduleList"]

\* scheduleTimetableSync(timetableId, intervalMinutes) called on its own
BeginSchedule(c) ==
    /\ boot = "up"
    /\ FirstIdleCaller(c)
    /\ InFlight < inFlightLimit
    /\ \E id \in TimetableIds, m \in Intervals :
          call' = [call EXCEPT ![c] =
                      EnterSchedule([IdleCall EXCEPT !.op = "schedule", !.timetableId = id,
                                                     !.interval = m])]
    /\ UNCHANGED <<env, window, client, oauth, grant, apiKeys, read, boot, timetableQueue, timetableWorker, inFlightLimit, clock,
                   timetables, credentials, courses, nextId, uuids, syncs,
                   repeatables, waiting, run, lastSync, vault>>

\* await timetableQueue.getRepeatableJobs()
ScheduleList(c) ==
    /\ call[c].pc = "scheduleList"
    /\ call' = [call EXCEPT ![c] = [@ EXCEPT !.pc = "scheduleRemove",
                                             !.repeatableJobs = repeatables]]
    /\ UNCHANGED <<env, window, client, oauth, grant, apiKeys, read, boot, timetableQueue, timetableWorker, inFlightLimit, clock,
                   timetables, credentials, courses, nextId, uuids, syncs,
                   repeatables, waiting, run, lastSync, vault>>

\* the loop: one removeRepeatableByKey per listed job with this job id
ScheduleRemove(c) ==
    /\ call[c].pc = "scheduleRemove"
    /\ LET k == call[c] IN
       IF ToRemove(k.repeatableJobs, k.timetableId) \ k.removed = {}
       THEN /\ call' = [call EXCEPT ![c] = [k EXCEPT !.pc = "scheduleAdd"]]
            /\ UNCHANGED repeatables
       ELSE LET j == NextToRemove(ToRemove(k.repeatableJobs, k.timetableId) \ k.removed) IN
            /\ repeatables' = RemoveByKey(repeatables, j.key)
            /\ call' = [call EXCEPT ![c] = [k EXCEPT !.removed = @ \cup {j}]]
    /\ UNCHANGED <<env, window, client, oauth, grant, apiKeys, read, boot, timetableQueue, timetableWorker, inFlightLimit, clock,
                   timetables, credentials, courses, nextId, uuids, syncs, waiting,
                   run, lastSync, vault>>

\* await timetableQueue.add("sync", { timetableId }, { jobId, repeat: { every } })
ScheduleAdd(c) ==
    /\ call[c].pc = "scheduleAdd"
    /\ LET k == call[c] IN
       /\ repeatables' = AddRepeatable(repeatables,
                                       Repeatable(k.timetableId, EveryMs(k.interval)))
       /\ call' = [call EXCEPT ![c] = AfterSchedule(k)]
    /\ UNCHANGED <<env, window, client, oauth, grant, apiKeys, read, boot, timetableQueue, timetableWorker, inFlightLimit, clock,
                   timetables, credentials, courses, nextId, uuids, syncs, waiting,
                   run, lastSync, vault>>

ImmediateJob(timetableId) ==
    [name |-> "sync-immediate", timetableId |-> timetableId, repeatJobKey |-> <<>>]

\* a trigger that adds the job twice
TriggerAddsTwice(timetableId) ==
    IF ~timetableQueue THEN EmptyBag
    ELSE SetToBag({ImmediateJob(timetableId)}) (+) SetToBag({ImmediateJob(timetableId)})

\* triggerImmediateSync: queue.add("sync-immediate", { timetableId }), or nothing
\* without a queue
TriggerAdds(timetableId) ==
    IF ~timetableQueue THEN EmptyBag ELSE SetToBag({ImmediateJob(timetableId)})

\* triggerImmediateSync(timetableId) called on its own
TriggerImmediate(c) ==
    /\ boot = "up"
    /\ FirstIdleCaller(c)
    /\ InFlight < inFlightLimit
    /\ BagCardinality(waiting) < MaxWaiting
    /\ \E id \in TimetableIds :
          /\ waiting' = waiting (+) TriggerAdds(id)
          /\ call' = [call EXCEPT ![c] =
                         [IdleCall EXCEPT !.pc = "done", !.op = "trigger",
                                          !.timetableId = id, !.result = ReturnedUndefined]]
    /\ UNCHANGED <<env, window, client, oauth, grant, apiKeys, read, boot, timetableQueue, timetableWorker, inFlightLimit, clock,
                   timetables, credentials, courses, nextId, uuids, syncs,
                   repeatables, run, lastSync, vault>>

(***************************************************************************)
(* POST /api/timetables and DELETE /api/timetables/:id.                    *)
(***************************************************************************)
\* an authenticated request with valid credentials, up to encrypt(credsJson);
\* its syncInterval is one of the given ones
CreateRequest(c, intervals) ==
    /\ boot = "up"
    /\ FirstIdleCaller(c)
    /\ InFlight < inFlightLimit
    /\ nextId <= MaxTimetables
    /\ \E u \in Users, m \in intervals, text \in CredentialTexts, iv \in RequestIVs :
          LET enc == encrypt(text, iv) IN
          call' = [call EXCEPT ![c] =
                      IF enc.ok
                      THEN [IdleCall EXCEPT !.pc = "findFirst", !.op = "create",
                                            !.user = u, !.interval = m,
                                            !.creds = enc.value.encryptedData,
                                            !.iv = enc.value.iv]
                      ELSE [IdleCall EXCEPT !.pc = "done", !.op = "create", !.user = u,
                                            !.status = 500]]
    /\ UNCHANGED <<env, window, client, oauth, grant, apiKeys, read, boot, timetableQueue, timetableWorker, inFlightLimit, clock,
                   timetables, credentials, courses, nextId, uuids, syncs,
                   repeatables, waiting, run, lastSync, vault>>

\* a request of the web client, which leaves the interval at its default
BeginCreate(c) == CreateRequest(c, RequestIntervals)

\* const { ..., syncInterval = 60 } = req.body: the value of the body, or 60
SyncIntervalOf(body) == IF body = {} THEN 60 ELSE CHOOSE m \in body : TRUE

\* the syncInterval of a request body: absent, or any number
BodyIntervals == {{}, {0}, {1}, {14}, {15}}

\* a request of any client of the API
BeginCreateAny(c) == CreateRequest(c, {SyncIntervalOf(b) : b \in BodyIntervals})

\* await prisma.timetable.findFirst({ where: { userId, providerId, schoolId } })
CreateFindFirst(c) ==
    /\ call[c].pc = "findFirst"
    /\ LET k == call[c] IN
       call' = [call EXCEPT ![c] =
                   IF \E t \in timetables :
                         t.userId = k.user /\ t.providerId = "wigor" /\ t.schoolId = NoSchool
                   THEN [k EXCEPT !.pc = "done", !.status = 400]
                   ELSE [k EXCEPT !.pc = "create"]]
    /\ UNCHANGED <<env, window, client, oauth, grant, apiKeys, read, boot, timetableQueue, timetableWorker, inFlightLimit, clock,
                   timetables, credentials, courses, nextId, uuids, syncs,
                   repeatables, waiting, run, lastSync, vault>>

\* await prisma.timetable.create with its nested credentials
CreateRow(c) ==
    /\ call[c].pc = "create"
    /\ nextId <= MaxTimetables
    /\ LET k == call[c] IN
       /\ timetables' = timetables \cup
             {[id |-> nextId, userId |-> k.user, providerId |-> "wigor",
               schoolId |-> NoSchool, syncInterval |-> k.interval,
               lastSyncedAt |-> NoDate]}
       /\ credentials' = credentials \cup
             {[timetableId |-> nextId, encryptedCredentials |-> k.creds, iv |-> k.iv]}
       /\ call' = [call EXCEPT ![c] = [k EXCEPT !.pc = "trigger", !.timetableId = nextId]]
    /\ nextId' = nextId + 1
    /\ UNCHANGED <<env, window, client, oauth, grant, apiKeys, read, boot, timetableQueue, timetableWorker, inFlightLimit, clock,
                   courses, uuids, syncs, repeatables, waiting, run, lastSync, vault>>

\* await triggerImmediateSync(timetable.id), then the entry of scheduleTimetableSync
CreateTrigger(c) ==
    /\ call[c].pc = "trigger"
    /\ waiting' = waiting (+) TriggerAdds(call[c].timetableId)
    /\ call' = [call EXCEPT ![c] = EnterSchedule(@)]
    /\ UNCHANGED <<env, window, client, oauth, grant, apiKeys, read, boot, timetableQueue, timetableWorker, inFlightLimit, clock,
                   timetables, credentials, courses, nextId, uuids, syncs,
                   repeatables, run, lastSync, vault>>

\* DELETE by its owner: await prisma.timetable.findUnique
BeginDelete(c) ==
    /\ boot = "up"
    /\ FirstIdleCaller(c)
    /\ InFlight < inFlightLimit
    /\ \E id \in TimetableIds, u \in Users :
          call' = [call EXCEPT ![c] =
                      IF ~\E t \in timetables : t.id = id
                      THEN [IdleCall EXCEPT !.pc = "done", !.op = "delete", !.user = u,
                                            !.timetableId = id, !.status = 404]
                      ELSE IF ~\E t \in timetables : t.id = id /\ t.userId = u
                      THEN [IdleCall EXCEPT !.pc = "done", !.op = "delete", !.user = u,
                                            !.timetableId = id, !.status = 403]
                      ELSE [IdleCall EXCEPT !.pc = "delete", !.op = "delete", !.user = u,
                                            !.timetableId = id]]
    /\ UNCHANGED <<env, window, client, oauth, grant, apiKeys, read, boot, timetableQueue, timetableWorker, inFlightLimit, clock,
                   timetables, credentials, courses, nextId, uuids, syncs,
                   repeatables, waiting, run, lastSync, vault>>

\* await prisma.timetable.delete: the row and, by cascade, its credentials and courses
DeleteRow(c) ==
    /\ call[c].pc = "delete"
    /\ LET k == call[c] IN
       IF \E t \in timetables : t.id = k.timetableId
       THEN /\ timetables' = {t \in timetables : t.id # k.timetableId}
            /\ credentials' = {x \in credentials : x.timetableId # k.timetableId}
            /\ courses' = BagKeep(courses, {r \in BagToSet(courses) :
                                               r.timetableId # k.timetableId})
            /\ oauth' = [oauth EXCEPT !.accesses =
                                       {a \in @ : a.timetableId # k.timetableId}]
            /\ lastSync' = [lastSync EXCEPT ![k.timetableId] = NoSync]
            /\ call' = [call EXCEPT ![c] = [k EXCEPT !.pc = "done", !.status = 200]]
       ELSE /\ call' = [call EXCEPT ![c] = [k EXCEPT !.pc = "done", !.status = 500]]
            /\ UNCHANGED <<timetables, credentials, courses, lastSync, oauth>>
    /\ UNCHANGED <<env, window, client, grant, apiKeys, read, boot, timetableQueue, timetableWorker, inFlightLimit, clock, nextId,
                   uuids, syncs, repeatables, waiting, run, vault>>

\* the response has been sent, or the helper has returned
FinishCall(c) ==
    /\ call[c].pc = "done"
    /\ call' = [call EXCEPT ![c] = IdleCall]
    /\ UNCHANGED <<env, window, client, oauth, grant, apiKeys, read, boot, timetableQueue, timetableWorker, inFlightLimit, clock,
                   timetables, credentials, courses, nextId, uuids, syncs,
                   repeatables, waiting, run, lastSync, vault>>

(***************************************************************************)
(* The environment: the broker's repeat timer and the wall clock.          *)
(***************************************************************************)
RepeatJob(r) == [name |-> r.name, timetableId |-> r.timetableId, repeatJobKey |-> r.key]

\* a repeatable job comes due: the broker moves its next instance to the waiting
\* jobs; the instance after it is created only when this one is taken
RepeatTick ==
    /\ \E r \in repeatables :
          /\ ~BagIn(RepeatJob(r), waiting)
          /\ waiting' = waiting (+) SetToBag({RepeatJob(r)})
    /\ UNCHANGED <<env, window, client, oauth, grant, apiKeys, read, boot, timetableQueue, timetableWorker, inFlightLimit, clock,
                   timetables, credentials, courses, nextId, uuids, syncs,
                   repeatables, run, call, lastSync, vault>>

ClockTick ==
    /\ clock < Len(Times)
    /\ clock' = clock + 1
    /\ UNCHANGED <<env, window, client, oauth, grant, apiKeys, read, boot, timetableQueue, timetableWorker, inFlightLimit, timetables,
                   credentials, courses, nextId, uuids, syncs, repeatables, waiting,
                   run, call, lastSync, vault>>

(***************************************************************************)
(* Stand-alone use of the vault.                                           *)
(***************************************************************************)
\* the code units the stand-alone plaintexts are made of: "a", "e" acute, a high
\* and a low surrogate
TextUnits == {97, 233, 55357, 56832}

Texts == SeqsUpTo(TextUnits, MaxTextLen)

VaultEncrypt ==
    /\ vault.phase = "idle"
    /\ \E text \in Texts, iv \in IVs :
          vault' = [phase |-> "encrypted", text |-> text, enc |-> encrypt(text, iv),
                    dec |-> Thrown("")]
    /\ UNCHANGED <<env, window, client, oauth, grant, apiKeys, read, boot, timetableQueue, timetableWorker, inFlightLimit, clock,
                   timetables, credentials, courses, nextId, uuids, syncs,
                   repeatables, waiting, run, call, lastSync>>

VaultDecrypt ==
    /\ vault.phase = "encrypted"
    /\ vault.enc.ok
    /\ vault' = [vault EXCEPT !.phase = "decrypted",
                              !.dec = decrypt(vault.enc.value.encryptedData,
                                              vault.enc.value.iv)]
    /\ UNCHANGED <<env, window, client, oauth, grant, apiKeys, read, boot, timetableQueue, timetableWorker, inFlightLimit, clock,
                   timetables, credentials, courses, nextId, uuids, syncs,
                   repeatables, waiting, run, call, lastSync>>

\* one bit of one stored character
FlipBit(c, b) == XorBits(c, 2 ^ b, 8)

\* the stored text "<ciphertext hex>:<tag hex>" with bit b of character i flipped
Tampered(data, i, b) == [data EXCEPT ![i] = FlipBit(@, b)]

\* the position of the separator in the text encrypt produced
Separator(data) == CHOOSE i \in 1..Len(data) : data[i] = Colon

\* a stored credential is altered before it is read back
VaultTamper ==
    /\ vault.phase = "encrypted"
    /\ vault.enc.ok
    /\ LET data == vault.enc.value.encryptedData IN
       \E i \in 1..Len(data), b \in 0..7 :
          /\ i # Separator(data)
          /\ vault' = [vault EXCEPT
                          !.phase = IF i < Separator(data) THEN "tamperedCiphertext"
                                    ELSE "tamperedTag",
                          !.enc.value.encryptedData = Tampered(data, i, b)]
    /\ UNCHANGED <<env, window, client, oauth, grant, apiKeys, read, boot, timetableQueue, timetableWorker, inFlightLimit, clock,
                   timetables, credentials, courses, nextId, uuids, syncs,
                   repeatables, waiting, run, call, lastSync>>

\* decrypt of the altered credential
VaultDecryptTampered ==
    /\ vault.phase \in {"tamperedCiphertext", "tamperedTag"}
    /\ vault' = [vault EXCEPT !.phase = IF vault.phase = "tamperedCiphertext"
                                        THEN "openedCiphertext" ELSE "openedTag",
                              !.dec = decrypt(vault.enc.value.encryptedData,
                                              vault.enc.value.iv)]
    /\ UNCHANGED <<env, window, client, oauth, grant, apiKeys, read, boot, timetableQueue, timetableWorker, inFlightLimit, clock,
                   timetables, credentials, courses, nextId, uuids, syncs,
                   repeatables, waiting, run, call, lastSync>>

\* values of the variable at start: unset, empty, 32 ASCII characters, 31 ASCII
\* characters, 32 characters of which one takes two bytes, 16 characters of
\* two bytes each
KeyEnvs ==
    { NoKey,
      [set |-> TRUE, value |-> <<>>],
      [set |-> TRUE, value |-> [i \in 1..32 |-> 97]],
      [set |-> TRUE, value |-> [i \in 1..31 |-> 97]],
      [set |-> TRUE, value |-> [i \in 1..32 |-> IF i = 1 THEN 233 ELSE 97]],
      [set |-> TRUE, value |-> [i \in 1..16 |-> 233]] }

\* the encryption module is evaluated: the length check passes or throws
LoadKey ==
    /\ vault.phase = "idle"
    /\ vault' = [vault EXCEPT !.phase = IF KeyCheck THEN "keyLoaded" ELSE "startupFailed"]
    /\ UNCHANGED <<env, window, client, oauth, grant, apiKeys, read, boot, timetableQueue, timetableWorker, inFlightLimit, clock,
                   timetables, credentials, courses, nextId, uuids, syncs,
                   repeatables, waiting, run, call, lastSync>>

\* encrypt called by the started process
KeyEncrypt ==
    /\ vault.phase = "keyLoaded"
    /\ \E text \in Texts, iv \in IVs :
          vault' = [phase |-> "encrypted", text |-> text, enc |-> encrypt(text, iv),
                    dec |-> Thrown("")]
    /\ UNCHANGED <<env, window, client, oauth, grant, apiKeys, read, boot, timetableQueue, timetableWorker, inFlightLimit, clock,
                   timetables, credentials, courses, nextId, uuids, syncs,
                   repeatables, waiting, run, call, lastSync>>

\* the days new Date() may fall on
Dates ==
    {x \in (2023..(2023 + MaxYears)) \X (0..11) \X (1..31) :
        x[3] <= DaysInMonth(x[1], x[2])}

\* lines 94-108 of performSync for one current date
ComputeWindow ==
    /\ ~window.done
    /\ window' = [window EXCEPT !.done = TRUE, !.from = WindowFrom(window.now),
                                !.to = WindowTo(window.now)]
    /\ UNCHANGED <<env, client, oauth, grant, apiKeys, read, boot, timetableQueue, timetableWorker, inFlightLimit, clock,
                   timetables, credentials, courses, nextId, uuids, syncs,
                   repeatables, waiting, run, call, lastSync, vault>>

(***************************************************************************)
(* Specifications.                                                         *)
(***************************************************************************)
SyncStep(w) ==
    \/ FindUnique(w)
    \/ GetRepeatableJobs(w)
    \/ RemoveRepeatable(w)
    \/ GetSchedule(w)
    \/ DeleteMany(w)
    \/ CreateMany(w)
    \/ UpdateLastSynced(w)
    \/ FinishSync(w)

ScheduleStep(c) ==
    \/ ScheduleList(c)
    \/ ScheduleRemove(c)
    \/ ScheduleAdd(c)
    \/ FinishCall(c)

RequestStep(c) ==
    \/ BeginCreate(c)
    \/ CreateFindFirst(c)
    \/ CreateRow(c)
    \/ CreateTrigger(c)
    \/ BeginDelete(c)
    \/ DeleteRow(c)

\* the server as deployed: its two timetable endpoints, the broker and the worker
Next ==
    \/ Startup
    \/ \E w \in Workers : TakeJob(w) \/ SyncStep(w)
    \/ \E c \in Callers : RequestStep(c) \/ ScheduleStep(c)
    \/ RepeatTick
    \/ ClockTick

\* several runs and requests in flight
Spec == Init /\ [][Next]_vars

\* the same while the wall clock stays within one academic year
NextRace ==
    \/ Startup
    \/ \E w \in Workers : TakeJob(w) \/ SyncStep(w)
    \/ \E c \in Callers : RequestStep(c) \/ ScheduleStep(c)
    \/ RepeatTick

SpecRace == Init /\ [][NextRace]_vars

InitSerial ==
    /\ env = NoKey
    /\ window = NoWindow
    /\ apiKeys = NoApiKeys
    /\ read = IdleRead
    /\ oauth = NoOauth
    /\ grant = IdleGrant
    /\ client = IdleClient
    /\ boot = "starting"
    /\ timetableQueue = FALSE
    /\ timetableWorker = FALSE
    /\ inFlightLimit = 1
    /\ clock = 1
    /\ timetables = {}
    /\ credentials = {}
    /\ courses = EmptyBag
    /\ nextId = 1
    /\ uuids = 0
    /\ syncs = 0
    /\ repeatables = {}
    /\ waiting = EmptyBag
    /\ run = [w \in Workers |-> IdleRun]
    /\ call = [c \in Callers |-> IdleCall]
    /\ lastSync = [t \in TimetableIds |-> NoSync]
    /\ vault = [phase |-> "idle", text |-> <<>>, enc |-> Thrown(""), dec |-> Thrown("")]

\* the reference deployment: one operation at a time
SpecSerial == InitSerial /\ [][Next]_vars

\* the exported helpers (scheduleTimetableSync, triggerImmediateSync, performSync)
\* called on their own, for timetable ids of any kind
NextHelpers ==
    \/ Startup
    \/ \E c \in Callers : BeginSchedule(c) \/ TriggerImmediate(c) \/ ScheduleStep(c)
    \/ \E w \in Workers :
          \/ DirectSync(w)
          \/ FindUnique(w)
          \/ GetRepeatableJobs(w)
          \/ RemoveRepeatable(w)
          \/ FinishSync(w)

SpecHelpers == Init /\ [][NextHelpers]_vars

SpecHelpersSerial == InitSerial /\ [][NextHelpers]_vars

NextVault == VaultEncrypt \/ VaultDecrypt

\* the vault on its own
SpecVault == Init /\ [][NextVault]_vars

InitKey ==
    /\ env \in KeyEnvs
    /\ window = NoWindow
    /\ apiKeys = NoApiKeys
    /\ read = IdleRead
    /\ oauth = NoOauth
    /\ grant = IdleGrant
    /\ client = IdleClient
    /\ boot = "starting"
    /\ timetableQueue = FALSE
    /\ timetableWorker = FALSE
    /\ inFlightLimit = MaxInFlight
    /\ clock = 1
    /\ timetables = {}
    /\ credentials = {}
    /\ courses = EmptyBag
    /\ nextId = 1
    /\ uuids = 0
    /\ syncs = 0
    /\ repeatables = {}
    /\ waiting = EmptyBag
    /\ run = [w \in Workers |-> IdleRun]
    /\ call = [c \in Callers |-> IdleCall]
    /\ lastSync = [t \in TimetableIds |-> NoSync]
    /\ vault = [phase |-> "idle", text |-> <<>>, enc |-> Thrown(""), dec |-> Thrown("")]

NextKey == LoadKey \/ KeyEncrypt \/ VaultDecrypt

\* the vault of a process started with any of the key configurations
SpecKey == InitKey /\ [][NextKey]_vars

\* the continuations of a request or call that has started
CallStep(c) ==
    \/ CreateFindFirst(c)
    \/ CreateRow(c)
    \/ CreateTrigger(c)
    \/ DeleteRow(c)
    \/ ScheduleStep(c)

NextLive == Next \/ \E w \in Workers : TakeJobOfDeleted(w)

\* the continuations of a run after its timetable was looked up
RunStep(w) ==
    \/ GetRepeatableJobs(w)
    \/ RemoveRepeatable(w)
    \/ GetSchedule(w)
    \/ DeleteMany(w)
    \/ CreateMany(w)
    \/ UpdateLastSynced(w)
    \/ FinishSync(w)

\* the continuation of whatever is in flight
Progress == (\E w \in Workers : RunStep(w)) \/ (\E c \in Callers : CallStep(c))

\* the store answers every findUnique: FindUnique(w) is enabled exactly when
\* run[w].pc = "findUnique" and leaves that position, so this is WF_vars(FindUnique(w))
Answered(w) == []<>(run[w].pc # "findUnique")

\* the event loop runs the continuation that is ready, the broker fires the
\* repeat timer and hands waiting jobs to the worker whenever it is free
Fairness ==
    /\ WF_vars(RepeatTick)
    /\ SF_vars(\E w \in Workers : TakeJobOfDeleted(w))
    /\ WF_vars(Progress)
    /\ \A w \in Workers : Answered(w)

\* the reference deployment with a worker that keeps taking the jobs of deleted
\* timetables
SpecSerialLive == InitSerial /\ [][NextLive]_vars /\ Fairness

NextApi ==
    \/ Startup
    \/ \E c \in Callers :
          \/ BeginCreateAny(c)
          \/ CreateFindFirst(c)
          \/ CreateRow(c)
          \/ CreateTrigger(c)
          \/ BeginDelete(c)
          \/ DeleteRow(c)
          \/ ScheduleStep(c)

\* the two timetable endpoints serving any client, one request at a time
SpecApi == InitSerial /\ [][NextApi]_vars

(***************************************************************************)
(* Public API routes, authenticated via API key.                           *)
(***************************************************************************)
ApiUsers == {"u1", "u2"}
ApiKeyStrings == {"k1"}

\* the x-api-key header of a request, trimmed: missing, a key, or no key
Headers == {"", "k1", "zz"}

\* the :id of a request
RequestIds == 1..(MaxTimetables + 1)

\* keyRecord.metadata: whether it is (or parses to) an object, whether that
\* object's timetableIds is an array, and the array
Metadatas ==
    {[parses |-> FALSE, isArray |-> FALSE, ids |-> {}],
     [parses |-> TRUE, isArray |-> FALSE, ids |-> {}]}
      \cup {[parses |-> TRUE, isArray |-> TRUE, ids |-> S] : S \in SUBSET TimetableIds}

KeyRecords == [userId : ApiUsers, metadata : Metadatas]

\* Array.isArray(metadata.timetableIds) ? metadata.timetableIds : []
TimetableIdsOf(keyRecord) ==
    IF keyRecord.metadata.parses /\ keyRecord.metadata.isArray
    THEN keyRecord.metadata.ids
    ELSE {}

\* where: { id: { in: timetableIds } }, without the owner
FindManyOfAnyone(userId, timetableIds) == {t \in timetables : t.id \in timetableIds}

\* where: { userId, id: { in: timetableIds } }
FindMany(userId, timetableIds) ==
    {t \in timetables : t.userId = userId /\ t.id \in timetableIds}

\* where: { id, userId }
FindFirst(id, userId) == {t \in timetables : t.id = id /\ t.userId = userId}

\* the timetable as the API returns it, with its courses (include: { courses: true })
Enriched(t) ==
    [id |-> t.id, providerId |-> t.providerId, schoolId |-> t.schoolId,
     syncInterval |-> t.syncInterval, lastSyncedAt |-> t.lastSyncedAt,
     coursesCount |-> BagCardinality(EntityCourses(t.id)),
     courses |-> EntityCourses(t.id)]

Respond(r, status, body) == [r EXCEPT !.pc = "done", !.status = status, !.body = body]

\* the middleware, up to next()
ValidateApiKey ==
    /\ boot = "up"
    /\ read.pc \in {"idle", "done"}
    /\ \E route \in {"list", "byId"}, id \in RequestIds, keyString \in Headers,
          verified \in BOOLEAN :
          LET r == [IdleRead EXCEPT !.route = route, !.key = keyString,
                                    !.id = IF route = "byId" THEN id ELSE 0]
          IN read' =
                IF keyString = "" THEN Respond(r, 401, {})
                ELSE IF ~verified THEN Respond(r, 500, {})
                ELSE IF keyString \notin DOMAIN apiKeys THEN Respond(r, 401, {})
                ELSE [r EXCEPT !.pc = "handler",
                               !.apiKeyUser =
                                   [userId |-> apiKeys[keyString].userId,
                                    timetableIds |-> TimetableIdsOf(apiKeys[keyString])]]
    /\ UNCHANGED <<env, window, client, oauth, grant, apiKeys, boot, timetableQueue, timetableWorker,
                   inFlightLimit, clock, timetables, credentials, courses, nextId, uuids,
                   syncs, repeatables, waiting, run, call, lastSync, vault>>

\* GET /api/v1/timetables
ListTimetables ==
    /\ read.pc = "handler"
    /\ read.route = "list"
    /\ \E found \in BOOLEAN :
          read' =
             IF ~found THEN Respond(read, 500, {})
             ELSE Respond(read, 200,
                          {Enriched(t) : t \in FindMany(read.apiKeyUser.userId,
                                                        read.apiKeyUser.timetableIds)})
    /\ UNCHANGED <<env, window, client, oauth, grant, apiKeys, boot, timetableQueue, timetableWorker,
                   inFlightLimit, clock, timetables, credentials, courses, nextId, uuids,
                   syncs, repeatables, waiting, run, call, lastSync, vault>>

\* GET /api/v1/timetables/:id
GetTimetable ==
    /\ read.pc = "handler"
    /\ read.route = "byId"
    /\ \E found \in BOOLEAN :
          read' =
             IF read.id \notin read.apiKeyUser.timetableIds THEN Respond(read, 403, {})
             ELSE IF ~found THEN Respond(read, 500, {})
             ELSE IF FindFirst(read.id, read.apiKeyUser.userId) = {}
                  THEN Respond(read, 404, {})
             ELSE Respond(read, 200,
                          {Enriched(t) : t \in FindFirst(read.id, read.apiKeyUser.userId)})
    /\ UNCHANGED <<env, window, client, oauth, grant, apiKeys, boot, timetableQueue, timetableWorker,
                   inFlightLimit, clock, timetables, credentials, courses, nextId, uuids,
                   syncs, repeatables, waiting, run, call, lastSync, vault>>

\* the timetables a database may hold: each id owned by one user or absent
StoredTimetables ==
    {[id |-> i, userId |-> u, providerId |-> "wigor", schoolId |-> NoSchool,
      syncInterval |-> 60, lastSyncedAt |-> NoDate] : i \in TimetableIds, u \in ApiUsers}

\* the credentials row prisma.timetable.create nests in every timetable
CredentialsOf(rows) ==
    LET text == CHOOSE x \in CredentialTexts : TRUE
        iv == CHOOSE x \in RequestIVs : TRUE
        enc == encrypt(text, iv).value
    IN {[timetableId |-> t.id, encryptedCredentials |-> enc.encryptedData, iv |-> enc.iv]
          : t \in rows}

\* a process that starts on a database earlier processes have filled
InitRead ==
    /\ env = NoKey
    /\ window = NoWindow
    /\ apiKeys \in [ApiKeyStrings -> KeyRecords]
    /\ read = IdleRead
    /\ oauth = NoOauth
    /\ grant = IdleGrant
    /\ client = IdleClient
    /\ boot = "starting"
    /\ timetableQueue = FALSE
    /\ timetableWorker = FALSE
    /\ inFlightLimit = 1
    /\ clock = 1
    /\ timetables \in {S \in SUBSET StoredTimetables :
                          \A a, b \in S : a.id = b.id => a = b}
    /\ credentials = CredentialsOf(timetables)
    /\ courses \in {BagOfSeq(NewRows(<<Math>>, t.id, 0)) : t \in timetables}
                     \cup {EmptyBag}
    /\ nextId = MaxTimetables + 1
    /\ uuids = 0
    /\ syncs = 0
    /\ repeatables = {}
    /\ waiting = EmptyBag
    /\ run = [w \in Workers |-> IdleRun]
    /\ call = [c \in Callers |-> IdleCall]
    /\ lastSync = [t \in TimetableIds |-> NoSync]
    /\ vault = [phase |-> "idle", text |-> <<>>, enc |-> Thrown(""), dec |-> Thrown("")]

NextRead == Startup \/ ValidateApiKey \/ ListTimetables \/ GetTimetable

\* the public API serving requests over every small database and key
SpecRead == InitRead /\ [][NextRead]_vars

(***************************************************************************)
(* performSync on a database and a broker that earlier processes filled.   *)
(***************************************************************************)
\* a provider that an earlier version of providers/index.ts registered
FormerProviders == {"gone"}

\* the timetables of such a database: each id stored once or not at all
StepTimetables ==
    {[id |-> i, userId |-> "u1", providerId |-> p, schoolId |-> NoSchool,
      syncInterval |-> 60, lastSyncedAt |-> at]
       : i \in TimetableIds, p \in providers \cup FormerProviders,
         at \in {NoDate, Times[1]}}

\* the credentials row of a timetable, as encrypt wrote it or with one bit of
\* its ciphertext changed since
StepCredentials(timetableId, intact) ==
    LET text == CHOOSE x \in CredentialTexts : TRUE
        iv == CHOOSE x \in RequestIVs : TRUE
        enc == encrypt(text, iv).value
    IN [timetableId |-> timetableId,
        encryptedCredentials |-> IF intact THEN enc.encryptedData
                                 ELSE Tampered(enc.encryptedData, 1, 0),
        iv |-> enc.iv]

\* such a database with timetables of the given ids, and a deployment running
\* so many operations at once
StepsInit(limit, ids) ==
    /\ env = NoKey
    /\ window = NoWindow
    /\ apiKeys = NoApiKeys
    /\ read = IdleRead
    /\ oauth = NoOauth
    /\ grant = IdleGrant
    /\ client = IdleClient
    /\ boot = "starting"
    /\ timetableQueue = FALSE
    /\ timetableWorker = FALSE
    /\ inFlightLimit = limit
    /\ clock = 1
    /\ timetables \in {S \in SUBSET {t \in StepTimetables : t.id \in ids} :
                          \A a, b \in S : a.id = b.id => a = b}
    /\ credentials \in {{StepCredentials(t.id, intact[t.id]) : t \in timetables}
                            : intact \in [TimetableIds -> BOOLEAN]}
    /\ courses \in {BagOfSeq(NewRows(<<Math>>, t.id, 0)) : t \in timetables}
                     \cup {EmptyBag}
    /\ nextId = MaxTimetables + 1
    /\ uuids = 0
    /\ syncs = 0
    /\ repeatables \in {{Repeatable(i, EveryMs(60)) : i \in S} : S \in SUBSET ids}
    /\ waiting = EmptyBag
    /\ run = [w \in Workers |-> IdleRun]
    /\ call = [c \in Callers |-> IdleCall]
    /\ lastSync = [t \in TimetableIds |-> NoSync]
    /\ vault = [phase |-> "idle", text |-> <<>>, enc |-> Thrown(""), dec |-> Thrown("")]

InitSteps == StepsInit(1, TimetableIds)

NextSteps ==
    \/ Startup
    \/ RepeatTick
    \/ \E w \in Workers : TakeJob(w) \/ SyncStep(w)

\* the worker running the repeatable jobs of such a database, one at a time
SpecSteps == InitSteps /\ [][NextSteps]_vars

InitStepsRace == StepsInit(MaxInFlight, {1})

NextStepsRace ==
    \/ NextSteps
    \/ \E c \in Callers : BeginDelete(c) \/ DeleteRow(c) \/ FinishCall(c)

\* the same with runs and deletions of timetables in flight together
SpecStepsRace == InitStepsRace /\ [][NextStepsRace]_vars

(***************************************************************************)
(* GET /api/timetables: the timetables of the session's user.              *)
(***************************************************************************)
\* await auth.api.getSession: a session of a user, or none
OwnerSession(session, u) ==
    IF ~session THEN Respond([IdleRead EXCEPT !.route = "owner"], 401, {})
    ELSE [IdleRead EXCEPT !.pc = "findMany", !.route = "owner", !.apiKeyUser.userId = u]

BeginOwnerList ==
    /\ boot = "up"
    /\ read.pc \in {"idle", "done"}
    /\ \E session \in BOOLEAN, u \in Users : read' = OwnerSession(session, u)
    /\ UNCHANGED <<env, window, client, oauth, grant, apiKeys, boot, timetableQueue, timetableWorker,
                   inFlightLimit, clock, timetables, credentials, courses, nextId, uuids,
                   syncs, repeatables, waiting, run, call, lastSync, vault>>

\* timetables.map((t) => ({ ...t, isSyncing: ... }))
WithSyncStatus(found, syncingTimetableIds) ==
    {[id |-> f.id, lastSyncedAt |-> f.lastSyncedAt, courses |-> f.courses,
      isSyncing |-> f.id \in syncingTimetableIds \/ f.lastSyncedAt = NoDate] : f \in found}

\* await prisma.timetable.findMany({ where: { userId }, include: { courses: true } });
\* without a queue the response follows at once
OwnerFindMany ==
    /\ read.pc = "findMany"
    /\ LET found == {[id |-> t.id, lastSyncedAt |-> t.lastSyncedAt,
                       courses |-> EntityCourses(t.id)]
                        : t \in {x \in timetables : x.userId = read.apiKeyUser.userId}}
       IN read' = IF timetableQueue
                  THEN [read EXCEPT !.pc = "getActive", !.found = found]
                  ELSE Respond([read EXCEPT !.found = found], 200, WithSyncStatus(found, {}))
    /\ UNCHANGED <<env, window, client, oauth, grant, apiKeys, boot, timetableQueue, timetableWorker,
                   inFlightLimit, clock, timetables, credentials, courses, nextId, uuids,
                   syncs, repeatables, waiting, run, call, lastSync, vault>>

\* the timetables of the jobs the worker is processing
ActiveIds == {run[w].timetableId : w \in {v \in Workers : run[v].via = "job"}}

\* the timetables of the waiting jobs
WaitingIds == {j.timetableId : j \in BagToSet(waiting)}

\* await timetableQueue.getActive()
OwnerGetActive ==
    /\ read.pc = "getActive"
    /\ read' = [read EXCEPT !.pc = "getWaiting", !.syncing = ActiveIds]
    /\ UNCHANGED <<env, window, client, oauth, grant, apiKeys, boot, timetableQueue, timetableWorker,
                   inFlightLimit, clock, timetables, credentials, courses, nextId, uuids,
                   syncs, repeatables, waiting, run, call, lastSync, vault>>

\* await timetableQueue.getWaiting(), then the response
OwnerGetWaiting ==
    /\ read.pc = "getWaiting"
    /\ read' = Respond([read EXCEPT !.syncing = @ \cup WaitingIds], 200,
                       WithSyncStatus(read.found, read.syncing \cup WaitingIds))
    /\ UNCHANGED <<env, window, client, oauth, grant, apiKeys, boot, timetableQueue, timetableWorker,
                   inFlightLimit, clock, timetables, credentials, courses, nextId, uuids,
                   syncs, repeatables, waiting, run, call, lastSync, vault>>

OwnerListStep == BeginOwnerList \/ OwnerFindMany \/ OwnerGetActive \/ OwnerGetWaiting

NextList == NextRace \/ OwnerListStep

\* the server doing one write operation at a time while the dashboard reads
SpecList == InitSerial /\ [][NextList]_vars

(***************************************************************************)
(* OAuth: saving grants, reading through a token, revoking an application. *)
(***************************************************************************)
Clients == {"c1"}

\* the tokens the authorization server may have issued: one per user
TokenOf(u) == IF u = "u1" THEN "t1" ELSE "t2"

\* accessTokenExpiresAt: null, a time before now, a time after now
Expiries == {NoDate, <<2024, 0, 1>>, <<2025, 0, 1>>}

Respond2(g, status) == [g EXCEPT !.pc = "done", !.status = status]

\* POST /api/oauth/timetable-access, up to the try block
BeginSaveAccess ==
    /\ boot = "up"
    /\ grant.pc \in {"idle", "done"}
    /\ \E session, emailVerified, isArray \in BOOLEAN, u \in ApiUsers,
          clientId \in Clients \cup {""}, ids \in SUBSET TimetableIds :
          LET g == [IdleGrant EXCEPT !.op = "save"] IN
          grant' =
             IF ~session THEN Respond2(g, 401)
             ELSE IF ~emailVerified THEN Respond2([g EXCEPT !.userId = u], 403)
             ELSE IF clientId = "" \/ ~isArray THEN Respond2([g EXCEPT !.userId = u], 400)
             ELSE [g EXCEPT !.pc = "deleteMany", !.userId = u, !.clientId = clientId,
                            !.timetableIds = ids]
    /\ UNCHANGED <<env, window, client, oauth, apiKeys, read, boot, timetableQueue,
                   timetableWorker, inFlightLimit, clock, timetables, credentials, courses,
                   nextId, uuids, syncs, repeatables, waiting, run, call, lastSync, vault>>

\* where: { clientId, userId }
OfPair(rows, clientId, userId) == {a \in rows : a.clientId = clientId /\ a.userId = userId}

\* await prisma.oauthClientTimetableAccess.deleteMany
SaveDeleteMany ==
    /\ grant.pc = "deleteMany"
    /\ oauth' = [oauth EXCEPT !.accesses = @ \ OfPair(@, grant.clientId, grant.userId)]
    /\ grant' = IF grant.timetableIds # {} THEN [grant EXCEPT !.pc = "createMany"]
                ELSE Respond2(grant, 200)
    /\ UNCHANGED <<env, window, client, apiKeys, read, boot, timetableQueue,
                   timetableWorker, inFlightLimit, clock, timetables, credentials, courses,
                   nextId, uuids, syncs, repeatables, waiting, run, call, lastSync, vault>>

\* await prisma.oauthClientTimetableAccess.createMany; the foreign key rejects
\* the rows if a timetable is not stored
SaveCreateMany ==
    /\ grant.pc = "createMany"
    /\ IF \A id \in grant.timetableIds : Stored(id)
       THEN /\ oauth' = [oauth EXCEPT !.accesses = @ \cup
                            {[clientId |-> grant.clientId, userId |-> grant.userId,
                              timetableId |-> id] : id \in grant.timetableIds}]
            /\ grant' = Respond2(grant, 200)
       ELSE /\ grant' = Respond2(grant, 500)
            /\ UNCHANGED oauth
    /\ UNCHANGED <<env, window, client, apiKeys, read, boot, timetableQueue,
                   timetableWorker, inFlightLimit, clock, timetables, credentials, courses,
                   nextId, uuids, syncs, repeatables, waiting, run, call, lastSync, vault>>

\* DELETE /api/oauth/authorized-apps/:clientId, up to the try block
BeginRevoke ==
    /\ boot = "up"
    /\ grant.pc \in {"idle", "done"}
    /\ \E session \in BOOLEAN, u \in ApiUsers, clientId \in Clients :
          LET g == [IdleGrant EXCEPT !.op = "revoke"] IN
          grant' = IF ~session THEN Respond2(g, 401)
                   ELSE [g EXCEPT !.pc = "revokeAccesses", !.userId = u,
                                  !.clientId = clientId]
    /\ UNCHANGED <<env, window, client, oauth, apiKeys, read, boot, timetableQueue,
                   timetableWorker, inFlightLimit, clock, timetables, credentials, courses,
                   nextId, uuids, syncs, repeatables, waiting, run, call, lastSync, vault>>

\* await prisma.oauthClientTimetableAccess.deleteMany({ where: { userId, clientId } })
RevokeAccesses ==
    /\ grant.pc = "revokeAccesses"
    /\ oauth' = [oauth EXCEPT !.accesses = @ \ OfPair(@, grant.clientId, grant.userId)]
    /\ grant' = [grant EXCEPT !.pc = "revokeConsents"]
    /\ UNCHANGED <<env, window, client, apiKeys, read, boot, timetableQueue,
                   timetableWorker, inFlightLimit, clock, timetables, credentials, courses,
                   nextId, uuids, syncs, repeatables, waiting, run, call, lastSync, vault>>

\* await prisma.oauthConsent.deleteMany({ where: { userId, clientId } })
RevokeConsents ==
    /\ grant.pc = "revokeConsents"
    /\ oauth' = [oauth EXCEPT !.consents = @ \ OfPair(@, grant.clientId, grant.userId)]
    /\ grant' = [grant EXCEPT !.pc = "revokeTokens"]
    /\ UNCHANGED <<env, window, client, apiKeys, read, boot, timetableQueue,
                   timetableWorker, inFlightLimit, clock, timetables, credentials, courses,
                   nextId, uuids, syncs, repeatables, waiting, run, call, lastSync, vault>>

\* a deleteMany of the tokens that matches no row
TokensNotDeleted(rows, clientId, userId) == {}

\* where: { userId, clientId } of the tokens
TokensOfPair(rows, clientId, userId) == OfPair(rows, clientId, userId)

\* await prisma.oauthAccessToken.deleteMany({ where: { userId, clientId } })
RevokeTokens ==
    /\ grant.pc = "revokeTokens"
    /\ oauth' = [oauth EXCEPT !.tokens = @ \ TokensOfPair(@, grant.clientId, grant.userId)]
    /\ grant' = Respond2(grant, 200)
    /\ UNCHANGED <<env, window, client, apiKeys, read, boot, timetableQueue,
                   timetableWorker, inFlightLimit, clock, timetables, credentials, courses,
                   nextId, uuids, syncs, repeatables, waiting, run, call, lastSync, vault>>

\* the token of an Authorization header: none, a token, or no token of the table
BearerTokens == {"", "zz"} \cup {TokenOf(u) : u \in ApiUsers}

\* GET /api/oauth/timetables up to await prisma.oauthAccessToken.findUnique and
\* the checks of its row
OauthFindToken ==
    /\ boot = "up"
    /\ read.pc \in {"idle", "done"}
    /\ \E token \in BearerTokens :
          LET r == [IdleRead EXCEPT !.route = "oauth", !.key = token]
              rows == {x \in oauth.tokens : x.accessToken = token}
          IN read' =
                IF token = "" \/ rows = {} THEN Respond(r, 401, {})
                ELSE LET accessToken == CHOOSE x \in rows : TRUE IN
                     IF accessToken.accessTokenExpiresAt # NoDate
                          /\ DateLess(accessToken.accessTokenExpiresAt, now)
                     THEN Respond(r, 401, {})
                     ELSE [r EXCEPT !.pc = "accesses", !.clientId = accessToken.clientId,
                                    !.apiKeyUser.userId = accessToken.userId]
    /\ UNCHANGED <<env, window, client, oauth, grant, apiKeys, boot, timetableQueue,
                   timetableWorker, inFlightLimit, clock, timetables, credentials, courses,
                   nextId, uuids, syncs, repeatables, waiting, run, call, lastSync, vault>>

\* await prisma.oauthClientTimetableAccess.findMany with its timetables, and
\* the response
OauthFindMany ==
    /\ read.pc = "accesses"
    /\ LET accesses == OfPair(oauth.accesses, read.clientId, read.apiKeyUser.userId)
       IN read' = Respond(read, 200,
                          {Enriched(t) : t \in {x \in timetables :
                                \E a \in accesses : a.timetableId = x.id}})
    /\ UNCHANGED <<env, window, client, oauth, grant, apiKeys, boot, timetableQueue,
                   timetableWorker, inFlightLimit, clock, timetables, credentials, courses,
                   nextId, uuids, syncs, repeatables, waiting, run, call, lastSync, vault>>

\* a database with a timetable of each user or none, and the tokens and
\* consents the authorization server has issued
InitOauth ==
    /\ env = NoKey
    /\ window = NoWindow
    /\ apiKeys = NoApiKeys
    /\ read = IdleRead
    /\ \E issued \in SUBSET ApiUsers, at \in Expiries :
          oauth = [accesses |-> {},
                   consents |-> {[clientId |-> "c1", userId |-> u] : u \in issued},
                   tokens |-> {[accessToken |-> TokenOf(u), clientId |-> "c1",
                                userId |-> u,
                                accessTokenExpiresAt |-> IF u = "u1" THEN at ELSE NoDate]
                                 : u \in issued}]
    /\ grant = IdleGrant
    /\ client = IdleClient
    /\ boot = "starting"
    /\ timetableQueue = FALSE
    /\ timetableWorker = FALSE
    /\ inFlightLimit = 1
    /\ clock = 1
    /\ timetables \in SUBSET {t \in StoredTimetables :
                                 (t.id = 1 /\ t.userId = "u1") \/ (t.id = 2 /\ t.userId = "u2")}
    /\ credentials = CredentialsOf(timetables)
    /\ courses = IF Stored(2) THEN BagOfSeq(NewRows(<<Math>>, 2, 0)) ELSE EmptyBag
    /\ nextId = MaxTimetables + 1
    /\ uuids = 0
    /\ syncs = 0
    /\ repeatables = {}
    /\ waiting = EmptyBag
    /\ run = [w \in Workers |-> IdleRun]
    /\ call = [c \in Callers |-> IdleCall]
    /\ lastSync = [t \in TimetableIds |-> NoSync]
    /\ vault = [phase |-> "idle", text |-> <<>>, enc |-> Thrown(""), dec |-> Thrown("")]

NextOauth ==
    \/ Startup
    \/ BeginSaveAccess \/ SaveDeleteMany \/ SaveCreateMany
    \/ BeginRevoke \/ RevokeAccesses \/ RevokeConsents \/ RevokeTokens
    \/ OauthFindToken \/ OauthFindMany

\* users saving grants and revoking the application while its tokens read
SpecOauth == InitOauth /\ [][NextOauth]_vars

(***************************************************************************)
(* The dashboard: handleAddTimetable and its polling loop.                 *)
(***************************************************************************)
\* the response of POST /api/timetables arrives: res.ok, newTimetableId
ClientAccepted(c) ==
    /\ client.pc = "idle"
    /\ call[c].pc = "done"
    /\ call[c].op = "create"
    /\ call[c].status = 202
    /\ client' = [pc |-> "sleeping", newTimetableId |-> call[c].timetableId]
    /\ call' = [call EXCEPT ![c] = IdleCall]
    /\ UNCHANGED <<env, window, oauth, grant, apiKeys, read, boot, timetableQueue,
                   timetableWorker, inFlightLimit, clock, timetables, credentials, courses,
                   nextId, uuids, syncs, repeatables, waiting, run, lastSync, vault>>

\* the two seconds are over: fetch("/api/timetables") is sent and the
\* handler looks for the session
ClientWakes ==
    /\ client.pc = "sleeping"
    /\ read.pc \in {"idle", "done"}
    /\ client' = [client EXCEPT !.pc = "fetching"]
    /\ \E session \in BOOLEAN, u \in Users : read' = OwnerSession(session, u)
    /\ UNCHANGED <<env, window, oauth, grant, apiKeys, boot, timetableQueue,
                   timetableWorker, inFlightLimit, clock, timetables, credentials, courses,
                   nextId, uuids, syncs, repeatables, waiting, run, call, lastSync, vault>>

\* the body of the loop after the fetch: go on, exit, or throw
AfterList(status, body, newTimetableId) ==
    IF status # 200 THEN "sleeping"
    ELSE IF ~\E e \in body : e.id = newTimetableId THEN "failed"
    ELSE IF \E e \in body : e.id = newTimetableId /\ ~e.isSyncing /\ e.lastSyncedAt # NoDate
         THEN "finished"
    ELSE "sleeping"

\* the response of GET /api/timetables arrives
ClientReceives ==
    /\ client.pc = "fetching"
    /\ read.route = "owner"
    /\ read.pc = "done"
    /\ client' = [client EXCEPT !.pc = AfterList(read.status, read.body, client.newTimetableId)]
    /\ read' = IdleRead
    /\ UNCHANGED <<env, window, oauth, grant, apiKeys, boot, timetableQueue,
                   timetableWorker, inFlightLimit, clock, timetables, credentials, courses,
                   nextId, uuids, syncs, repeatables, waiting, run, call, lastSync, vault>>

\* the handler of the dashboard's own request going on
OwnerAnswer == OwnerFindMany \/ OwnerGetActive \/ OwnerGetWaiting

NextPoll ==
    \/ Startup
    \/ \E c \in Callers :
          \/ client.pc = "idle" /\ BeginCreate(c)
          \/ CreateFindFirst(c)
          \/ CreateRow(c)
          \/ CreateTrigger(c)
          \/ BeginDelete(c)
          \/ DeleteRow(c)
          \/ ScheduleStep(c)
          \/ ClientAccepted(c)
    \/ \E w \in Workers : TakeJob(w) \/ SyncStep(w)
    \/ RepeatTick
    \/ OwnerAnswer
    \/ ClientWakes
    \/ ClientReceives

\* the dashboard's session lasts: from some point on no request is answered 401
SignedIn == <>[](read.status # 401)

\* whatever can go on does: requests, runs, the repeat timer, the worker and
\* the dashboard's timer
FairPoll ==
    /\ SignedIn
    /\ WF_vars(RepeatTick)
    /\ WF_vars(\E w \in Workers : TakeJob(w))
    /\ WF_vars(Progress)
    /\ \A w \in Workers : Answered(w)
    /\ WF_vars(OwnerAnswer)
    /\ WF_vars(\E c \in Callers : ClientAccepted(c))
    /\ WF_vars(ClientWakes)
    /\ WF_vars(ClientReceives)

\* the dashboard adding a timetable and polling until it is synced
SpecPoll == InitSerial /\ [][NextPoll]_vars /\ FairPoll

InitWindow ==
    /\ env = NoKey
    /\ window \in {[NoWindow EXCEPT !.now = d] : d \in Dates}
    /\ apiKeys = NoApiKeys
    /\ read = IdleRead
    /\ oauth = NoOauth
    /\ grant = IdleGrant
    /\ client = IdleClient
    /\ boot = "starting"
    /\ timetableQueue = FALSE
    /\ timetableWorker = FALSE
    /\ inFlightLimit = MaxInFlight
    /\ clock = 1
    /\ timetables = {}
    /\ credentials = {}
    /\ courses = EmptyBag
    /\ nextId = 1
    /\ uuids = 0
    /\ syncs = 0
    /\ repeatables = {}
    /\ waiting = EmptyBag
    /\ run = [w \in Workers |-> IdleRun]
    /\ call = [c \in Callers |-> IdleCall]
    /\ lastSync = [t \in TimetableIds |-> NoSync]
    /\ vault = [phase |-> "idle", text |-> <<>>, enc |-> Thrown(""), dec |-> Thrown("")]

NextWindow == ComputeWindow

\* the fetch window of every day of a few years
SpecWindow == InitWindow /\ [][NextWindow]_vars

NextTamper == VaultEncrypt \/ VaultTamper \/ VaultDecryptTampered

\* the vault reading back credentials that were altered in storage
SpecTamper == Init /\ [][NextTamper]_vars

(***************************************************************************)
(* Properties.                                                             *)
(***************************************************************************)
\* a hash the executor generated, as opposed to one the provider assigned
IsGenerated(hash) == Len(hash) = 2 /\ hash[1] = "uuid"

\* what a stored row says about its event, a generated hash left out
Event(row) ==
    [hash |-> IF IsGenerated(row.hash) THEN NoHash ELSE row.hash,
     subject |-> row.subject, start |-> row.start]

RECURSIVE EventsOf(_, _)
EventsOf(S, bag) ==
    IF S = {} THEN EmptyBag
    ELSE LET x == CHOOSE y \in S : TRUE
         IN (Event(x) :> bag[x]) (+) EventsOf(S \ {x}, bag)

\* the events of a bag of rows, with their multiplicities
Events(bag) == EventsOf(BagToSet(bag), bag)

\* the rows that start at or after a date
InWindow(bag, from) == BagKeep(bag, {r \in BagToSet(bag) : DateGte(r.start, from)})

\* the events of a provider's response that start at or after a date
FetchedInWindow(fetched, from) ==
    BagOfSeq(SelectSeq(fetched, LAMBDA c : DateGte(c.start, from)))

Succeeded(r) == r.pc = "done" /\ r.result.kind = "returned" /\ r.result.success

Writes == {"deleteMany", "createMany", "update"}

WroteNothing(r) == \A i \in 1..Len(r.ops) : r.ops[i] \notin Writes

Registrations(timetableId) == {j \in repeatables : j.id = JobId(timetableId)}

C2_Idempotent ==
    \A w \in Workers :
        (Succeeded(run[w]) /\ run[w].prev.done /\ run[w].prev.fetched = run[w].fetched)
            => Events(EntityCourses(run[w].timetableId)) = Events(run[w].prev.after)

\* C3: when a call of scheduleTimetableSync(id, m) has returned, exactly one
\* repeatable job has the id sync-<id>, and it repeats every m * 60000 ms.
C3_OneRegistration ==
    \A c \in Callers :
        (call[c].pc = "done" /\ call[c].op = "schedule" /\ timetableQueue)
            => /\ Cardinality(Registrations(call[c].timetableId)) = 1
               /\ \A j \in Registrations(call[c].timetableId) :
                     j.every = call[c].interval * 60000

\* a call that has replaced a registration of another interval
C3_Witness ==
    \E c \in Callers :
        /\ call[c].pc = "done" /\ call[c].op = "schedule" /\ timetableQueue
        /\ \E j \in call[c].removed : j.every # call[c].interval * 60000

\* C4: whatever the interleaving of the scheduling and cleanup steps, a
\* timetable id never has more than one repeatable job.
C4_AtMostOneRegistration ==
    \A id \in TimetableIds : Cardinality(Registrations(id)) <= 1

\* C5: a run whose getSchedule threw ends by throwing the provider's error, has
\* deleted and inserted nothing and has left lastSyncedAt as it was.
C5_FetchFailure ==
    \A w \in Workers :
        (run[w].pc = "done" /\ Len(run[w].ops) > 0
            /\ run[w].ops[Len(run[w].ops)] = "getSchedule")
            => /\ run[w].result.kind = "thrown"
               /\ run[w].result.message \in ProviderErrors
               /\ WroteNothing(run[w])
               /\ courses = run[w].before.courses
               /\ timetables = run[w].before.timetables

\* a failed fetch for a timetable that has events and a lastSyncedAt
C5_Witness ==
    \E w \in Workers :
        /\ run[w].pc = "done" /\ run[w].result.kind = "thrown"
        /\ Len(run[w].ops) > 0 /\ run[w].ops[Len(run[w].ops)] = "getSchedule"
        /\ EntityCourses(run[w].timetableId) # EmptyBag
        /\ \E t \in timetables : t.id = run[w].timetableId /\ t.lastSyncedAt # NoDate

\* C6: a run that finds no timetable (or no credentials) leaves no repeatable
\* job with the id sync-<id>, returns the result "Timetable not found" without
\* throwing, and changes no course and no timetable.
C6_CleanupOnMissing ==
    \A w \in Workers :
        (run[w].pc = "done" /\ run[w].timetable = {} /\ Len(run[w].ops) > 0
            /\ run[w].ops[1] = "findUnique")
            => /\ run[w].result = Returned(FALSE, 0, "Timetable not found")
               /\ Registrations(run[w].timetableId) = {}
               /\ WroteNothing(run[w])
               /\ courses = run[w].before.courses
               /\ timetables = run[w].before.timetables

\* a cleanup that has removed the registration of a deleted timetable
C6_Witness ==
    \E w \in Workers :
        /\ run[w].pc = "done"
        /\ run[w].result.message = "Timetable not found"
        /\ \E j \in run[w].removed : j.id = JobId(run[w].timetableId)

\* C7: a run whose provider returned no event succeeds with coursesCount 0,
\* leaves no stored event of the timetable at or after the window start, and
\* sets lastSyncedAt to the time of the run; it returns, where a failed run throws.
C7_ZeroResult ==
    \A w \in Workers :
        LET r == run[w] IN
        (r.pc = "done" /\ ~WroteNothing(r) /\ r.fetched = <<>>)
            => /\ r.result = Returned(TRUE, 0, "")
               /\ r.ops[Len(r.ops)] = "update"
               /\ InWindow(EntityCourses(r.timetableId), r.from) = EmptyBag
               /\ \E t \in timetables :
                     /\ t.id = r.timetableId
                     /\ t.lastSyncedAt # NoDate
                     /\ DateGte(t.lastSyncedAt, r.now)

\* an empty response for a timetable that had events in the window
C7_Witness ==
    \E w \in Workers :
        /\ Succeeded(run[w]) /\ run[w].fetched = <<>>
        /\ \E row \in BagToSet(run[w].before.courses) :
              row.timetableId = run[w].timetableId /\ DateGte(row.start, run[w].from)

\* C8: once two runs for the same timetable that were given the same provider
\* response have both succeeded, in whatever interleaving, the stored events at
\* or after the window start are exactly the fetched ones, none duplicated.
C8_ConcurrentRuns ==
    \A v, w \in Workers :
        (v # w /\ Succeeded(run[v]) /\ Succeeded(run[w])
            /\ run[v].timetableId = run[w].timetableId
            /\ run[v].fetched = run[w].fetched /\ run[v].from = run[w].from)
            => Events(InWindow(EntityCourses(run[w].timetableId), run[w].from))
                  = FetchedInWindow(run[w].fetched, run[w].from)

\* the failure signal of a helper: an object that says success: false
SoftFailure(result) == result.kind = "returned" /\ ~result.success

\* C9: without a broker no worker is started, and scheduleTimetableSync,
\* triggerImmediateSync and performSync change nothing, never throw and each
\* return a failure signal; creating a timetable still succeeds.
C9_DegradedMode ==
    (boot = "up" /\ ~timetableQueue)
        => /\ ~timetableWorker
           /\ repeatables = {} /\ waiting = EmptyBag /\ courses = EmptyBag
           /\ \A w \in Workers : run[w].pc = "done" => SoftFailure(run[w].result)
           /\ \A c \in Callers :
                 /\ (call[c].pc = "done" /\ call[c].op \in {"schedule", "trigger"})
                       => SoftFailure(call[c].result)
                 /\ (call[c].pc = "done" /\ call[c].op = "create")
                       => call[c].status = 202

\* C10: decrypt gives back every plaintext encrypt was given, the empty one included.
C10_RoundTrip ==
    vault.phase = "decrypted" => vault.dec = Ok(vault.text)

\* C11: when one bit of the ciphertext part or of the tag part of a stored
\* credential has been flipped, decrypt throws; it returns no plaintext.
C11_FailsClosed ==
    vault.phase \in {"openedCiphertext", "openedTag"} => ~vault.dec.ok

\* C12: encrypt and decrypt are reached only by a process whose configured key
\* is present and exactly 32 bytes long; with any other key the start fails.
C12_KeyFailsFast ==
    vault.phase \in {"keyLoaded", "encrypted", "decrypted"}
        => env.set /\ Len(Utf8Encode(env.value)) = 32

\* C13: the window starts on September 1 of the year before the current one
\* when the current month is before September and of the current year
\* otherwise (2024-03-01 gives 2023-09-01, 2024-10-01 gives 2024-09-01), and
\* ends 14 days after August 30 of the year after, that is on September 13.
C13_Window ==
    window.done =>
        LET y == window.now[1]
            sy == IF window.now[2] \in 0..7 THEN y - 1 ELSE y
        IN /\ window.from = <<sy, 8, 1>>
           /\ window.to = <<sy + 1, 8, 13>>
           /\ window.now = <<2024, 2, 1>> => window.from = <<2023, 8, 1>>
           /\ window.now = <<2024, 9, 1>> => window.from = <<2024, 8, 1>>

\* the window of the first day of a September
C13_Witness == window.done /\ window.now = <<2024, 8, 1>> /\ window.from = <<2024, 8, 1>>

\* the step of run w in which its deleteMany takes effect
Deleting(w) == run[w].pc = "deleteMany" /\ run'[w].pc \in {"createMany", "update"}

\* C14 (as stated): the deleteMany of a run removes only events of its
\* timetable that start inside [from, to]; every stored event that starts
\* before from or after to keeps its rows.
C14_DeletesInsideWindow ==
    [][\A w \in Workers : Deleting(w) =>
          \A row \in BagToSet(courses) :
              (DateLess(row.start, run[w].from) \/ DateLess(run[w].to, row.start))
                  => CopiesIn(row, courses') = CopiesIn(row, courses)]_vars

\* C14 (amended): the deleteMany of a run removes the events of its timetable
\* that start at or after from, those after to included, and no other row.
C14_DeletesFromWindowStart ==
    [][\A w \in Workers : Deleting(w) =>
          \A row \in BagToSet(courses) :
              IF row.timetableId = run[w].timetableId /\ DateGte(row.start, run[w].from)
              THEN CopiesIn(row, courses') = 0
              ELSE CopiesIn(row, courses') = CopiesIn(row, courses)]_vars

\* a run has deleted an event that starts after the end of its window
C14_Witness ==
    \E w \in Workers :
        /\ run[w].pc \in {"createMany", "update"}
        /\ \E row \in BagToSet(run[w].before.courses) :
              DateLess(run[w].to, row.start) /\ ~BagIn(row, courses)

\* C15: in every state, also after two overlapping create requests of one
\* user, no two timetables have the same user, provider and school, a missing
\* school being one value.
C15_OnePerTriple ==
    \A t1, t2 \in timetables :
        (t1.userId = t2.userId /\ t1.providerId = t2.providerId
            /\ t1.schoolId = t2.schoolId) => t1.id = t2.id

\* a timetable that was created and is no longer stored
Deleted(id) == id < nextId /\ ~Stored(id)

\* C16: once a timetable has been deleted, eventually no repeatable job has
\* its id, and from then on none has: the repeat timer adds no more jobs for it.
C16_CleanupIsLive ==
    \A id \in TimetableIds : Deleted(id) ~> [](Registrations(id) = {})

\* the run of a repeat job has removed the registration of a deleted timetable
C16_Witness ==
    \E w \in Workers :
        /\ run[w].pc = "done" /\ run[w].via = "job"
        /\ Deleted(run[w].timetableId)
        /\ run[w].removed # {}
        /\ Registrations(run[w].timetableId) = {}

\* C17: when DELETE /api/timetables/:id has deleted a timetable, no repeatable
\* job has the id sync-<id>.
C17_DeleteCancels ==
    \A c \in Callers :
        (call[c].pc = "done" /\ call[c].op = "delete" /\ call[c].status = 200)
            => Registrations(call[c].timetableId) = {}

\* C18: every stored timetable has a sync interval of at least 15 minutes and
\* every repeatable job repeats at intervals of at least 15 minutes.
C18_IntervalAtLeastMinimum ==
    /\ \A t \in timetables : t.syncInterval >= 15
    /\ \A j \in repeatables : j.every >= 15 * 60000

\* C19: every timetable a request with an API key gets back, from the list or
\* from the by-id endpoint, is in the key's timetableIds and belongs to the
\* key's user, and comes with exactly its own courses; a by-id request for a
\* timetable outside the key's timetableIds is not answered 200; and no step
\* of a read changes the keys, the timetables, the credentials or the courses.
C19_ReadProjection ==
    /\ [](read.pc = "done" /\ read.status = 200 =>
             /\ \A e \in read.body :
                   /\ e.id \in TimetableIdsOf(apiKeys[read.key])
                   /\ \E t \in timetables :
                         /\ t.id = e.id
                         /\ t.userId = apiKeys[read.key].userId
                   /\ e.courses = EntityCourses(e.id))
    /\ [](read.pc = "done" /\ read.route = "byId" /\ read.key \in DOMAIN apiKeys
             /\ read.id \notin TimetableIdsOf(apiKeys[read.key]) => read.status # 200)
    /\ [][read' # read =>
             UNCHANGED <<apiKeys, timetables, credentials, courses>>]_vars

\* a key of one user that lists a timetable of another user and one of its
\* own: the list is answered with the own timetable and its course only
C19_Witness ==
    /\ read.pc = "done"
    /\ read.route = "list"
    /\ read.status = 200
    /\ Cardinality(read.body) = 1
    /\ \E e \in read.body : e.coursesCount = 1
    /\ \E t \in timetables :
          /\ t.id \in TimetableIdsOf(apiKeys[read.key])
          /\ t.userId # apiKeys[read.key].userId

IsPrefix(s, t) == Len(s) <= Len(t) /\ s = SubSeq(t, 1, Len(s))

\* what a run has done is a beginning of the given steps, where createMany is
\* left out by a run that fetched nothing
FollowsOrder(r, steps) ==
    \/ IsPrefix(r.ops, steps)
    \/ /\ r.fetched = <<>>
       /\ IsPrefix(r.ops, SelectSeq(steps, LAMBDA o : o # "createMany"))

\* the run of a timetable that is not stored: the cleanup
IsCleanup(r) ==
    /\ Len(r.ops) >= 1
    /\ r.ops[1] = "findUnique"
    /\ Len(r.ops) >= 2 => r.ops[2] = "getRepeatableJobs"
    /\ \A i \in 3..Len(r.ops) : r.ops[i] = "removeRepeatableByKey"

\* a run that has failed does nothing more: it only ends
StopsWhenFailed ==
    [][\A w \in Workers :
          run[w].result.kind = "thrown" => run'[w] = run[w] \/ run'[w] = IdleRun]_vars

DecryptThenProvider ==
    <<"findUnique", "decrypt", "getProvider", "window", "getSchedule",
      "deleteMany", "createMany", "update">>

ProviderThenDecrypt ==
    <<"findUnique", "getProvider", "decrypt", "window", "getSchedule",
      "deleteMany", "createMany", "update">>

Did(r, op) == \E i \in 1..Len(r.ops) : r.ops[i] = op

\* the step of run w in which its createMany takes effect
Inserting(w) == run[w].pc = "createMany" /\ run'[w].pc = "update"

\* C21: in a run the deleteMany comes before the createMany and both come
\* after getSchedule has returned; rows are added to the courses only by the
\* createMany of a run that fetched something, and a run that fetched nothing
\* calls no createMany.
C21_DeleteBeforeInsert ==
    /\ [][/\ \A w \in Workers :
              /\ Deleting(w) =>
                    /\ Did(run[w], "getSchedule")
                    /\ ~Did(run[w], "createMany")
                    /\ run[w].result.kind = "none"
              /\ Inserting(w) =>
                    /\ Did(run[w], "getSchedule")
                    /\ Did(run[w], "deleteMany")
                    /\ run[w].fetched # <<>>
                    /\ courses' = courses (+) BagOfSeq(NewRows(run[w].fetched,
                                                              run[w].timetableId, uuids))
          /\ (\E row \in BagToSet(courses') : CopiesIn(row, courses') > CopiesIn(row, courses))
                => \E w \in Workers : Inserting(w)]_vars
    /\ [](\A w \in Workers : run[w].fetched = <<>> => ~Did(run[w], "createMany"))

\* a run that deleted stored events of the window and then inserted the
\* fetched ones
C21_Witness ==
    \E w \in Workers :
        /\ Succeeded(run[w])
        /\ Did(run[w], "createMany")
        /\ InWindow(BagKeep(run[w].before.courses,
                            {row \in BagToSet(run[w].before.courses) :
                                row.timetableId = run[w].timetableId}),
                    run[w].from) # EmptyBag

\* the run has loaded a timetable whose provider is not registered
UnknownProvider(r) ==
    r.timetable # {} /\ \A t \in r.timetable : t.providerId \notin providers

\* C22: a run of a timetable whose providerId is not registered ends by
\* throwing "Provider not found" to the worker, without calling getSchedule
\* and without deleteMany, createMany or update; none of its steps changes a
\* course, a timetable, a credentials row or a repeatable job.
C22_UnknownProviderFails ==
    /\ [](\A w \in Workers :
            UnknownProvider(run[w]) =>
               /\ run[w].pc = "done"
               /\ run[w].result = Threw("Provider not found")
               /\ ~Did(run[w], "getSchedule")
               /\ WroteNothing(run[w])
               /\ courses = run[w].before.courses
               /\ timetables = run[w].before.timetables
               /\ Registrations(run[w].timetableId) # {})
    /\ [][\A w \in Workers :
            (run'[w] # run[w] /\ (UnknownProvider(run[w]) \/ UnknownProvider(run'[w])))
               => UNCHANGED <<courses, timetables, credentials, repeatables>>]_vars

\* such a run for a timetable that has events, a lastSyncedAt and a
\* repeatable job
C22_Witness ==
    \E w \in Workers :
        /\ UnknownProvider(run[w])
        /\ run[w].pc = "done"
        /\ run[w].via = "job"
        /\ EntityCourses(run[w].timetableId) # EmptyBag
        /\ \E t \in timetables : t.id = run[w].timetableId /\ t.lastSyncedAt # NoDate
        /\ Registrations(run[w].timetableId) # {}

\* C23: lastSyncedAt of a stored timetable changes only in the update that
\* ends a run of that timetable successfully, after its getSchedule, its
\* deleteMany and (when something was fetched) its createMany; the step in
\* which a run ends otherwise, by a failure result or by throwing, changes no
\* timetable.
C23_LastSyncedOnlyOnSuccess ==
    /\ [][\A t \in timetables, u \in timetables' :
            (u.id = t.id /\ u.lastSyncedAt # t.lastSyncedAt) =>
               \E w \in Workers :
                  /\ run[w].pc = "update"
                  /\ run[w].timetableId = t.id
                  /\ Succeeded(run'[w])
                  /\ Did(run[w], "getSchedule")
                  /\ Did(run[w], "deleteMany")
                  /\ run[w].fetched = <<>> \/ Did(run[w], "createMany")]_vars
    /\ [][\A w \in Workers :
            (run[w].pc # "done" /\ run'[w].pc = "done" /\ ~Succeeded(run'[w]))
               => timetables' = timetables]_vars
    /\ [](\A w \in Workers :
            run[w].pc = "update" =>
               /\ Did(run[w], "deleteMany")
               /\ run[w].fetched = <<>> \/ Did(run[w], "createMany"))

\* the second run in a row of a never synced timetable fails at the fetch, and
\* lastSyncedAt is still null
C23_Witness ==
    \E w \in Workers :
        /\ run[w].pc = "done"
        /\ run[w].result.kind = "thrown"
        /\ Did(run[w], "getSchedule")
        /\ syncs = 2
        /\ \A t \in timetables : ~lastSync[t.id].done
        /\ \E t \in timetables : t.id = run[w].timetableId /\ t.lastSyncedAt = NoDate

\* the waiting jobs that no repeatable job produced
OneOffJobs == BagKeep(waiting, {j \in BagToSet(waiting) : j.name = "sync-immediate"})

\* C24: with a queue, the step of triggerImmediateSync(id) adds exactly one
\* job "sync-immediate" of that id to the waiting jobs and changes no
\* repeatable job; no step of scheduleTimetableSync and no step of a run, its
\* cleanup included, changes the waiting one-off jobs.
C24_TriggerAndScheduleApart ==
    [][/\ \A c \in Callers :
            (timetableQueue /\ call[c].pc = "idle" /\ call'[c].op = "trigger") =>
               /\ waiting' = waiting (+) SetToBag({ImmediateJob(call'[c].timetableId)})
               /\ BagCardinality(waiting') = BagCardinality(waiting) + 1
               /\ repeatables' = repeatables
       /\ \A c \in Callers :
            (call'[c] # call[c] /\ "schedule" \in {call[c].op, call'[c].op})
               => OneOffJobs' = OneOffJobs
       /\ \A w \in Workers :
            (run'[w] # run[w] /\ run[w].pc # "idle") => OneOffJobs' = OneOffJobs
       /\ repeatables' # repeatables => waiting' = waiting]_vars

\* a one-off job is waiting while scheduleTimetableSync has replaced the
\* registration of the same timetable
C24_Witness ==
    \E c \in Callers :
        /\ call[c].pc = "done"
        /\ call[c].op = "schedule"
        /\ call[c].removed # {}
        /\ Registrations(call[c].timetableId) # {}
        /\ BagIn(ImmediateJob(call[c].timetableId), waiting)

\* the step in which GET /api/timetables answers
OwnerAnswers == read.pc = "getWaiting" \/ (read.pc = "findMany" /\ ~timetableQueue)

\* C25: as GET /api/timetables answers, each timetable in the response that is
\* still stored is reported as syncing exactly when its lastSyncedAt is null or
\* a job of it is active or waiting (without a queue: exactly when its
\* lastSyncedAt is null).
C25_SyncingExactly ==
    [][(OwnerAnswers /\ read'.pc = "done") =>
          \A e \in read'.body, t \in timetables :
              e.id = t.id =>
                 (e.isSyncing <=>
                     \/ t.lastSyncedAt = NoDate
                     \/ timetableQueue /\ t.id \in ActiveIds \cup WaitingIds)]_vars

\* C26: every timetable GET /api/oauth/timetables returns to the bearer of an
\* access token belongs to the user the token was issued for.
C26_TokenReadsOwnTimetables ==
    (read.route = "oauth" /\ read.pc = "done" /\ read.status = 200) =>
        \A e \in read.body :
            \E t \in timetables : t.id = e.id /\ t.userId = read.apiKeyUser.userId

\* the revocation of an application by a user has been answered
Revoked(userId, clientId) ==
    /\ grant.op = "revoke" /\ grant.pc = "done" /\ grant.status = 200
    /\ grant.userId = userId /\ grant.clientId = clientId

\* C29: once DELETE /api/oauth/authorized-apps/:clientId has answered, no
\* access token, consent or grant of that user and client is stored, and a
\* read that presents such a token from then on is answered 401; and every
\* timetable a read returns has, as the read answers, a stored grant of the
\* token's user and client, at every point of a revocation.
C29_RevokedTokenReadsNothing ==
    /\ [](\A u \in ApiUsers, c \in Clients :
            Revoked(u, c) =>
               /\ OfPair(oauth.tokens, c, u) = {}
               /\ OfPair(oauth.consents, c, u) = {}
               /\ OfPair(oauth.accesses, c, u) = {})
    /\ [][\A u \in ApiUsers, c \in Clients :
            (Revoked(u, c) /\ read.pc \in {"idle", "done"} /\ read' # read
                /\ read'.key = TokenOf(u))
               => read'.pc = "done" /\ read'.status = 401 /\ read'.body = {}]_vars
    /\ [][(read.pc = "accesses" /\ read'.pc = "done") =>
            \A e \in read'.body :
               \E a \in oauth.accesses :
                  /\ a.timetableId = e.id
                  /\ a.userId = read.apiKeyUser.userId
                  /\ a.clientId = read.clientId]_vars

\* the token of a user who has a timetable is presented after the user's
\* revocation and is refused
C29_Witness ==
    /\ \E u \in ApiUsers, c \in Clients : Revoked(u, c) /\ read.key = TokenOf(u)
    /\ read.route = "oauth"
    /\ read.pc = "done"
    /\ read.status = 401
    /\ \E t \in timetables : t.userId = grant.userId

\* C27: every stored course belongs to a stored timetable and a deleted
\* timetable is never stored again; so when a run that had loaded a timetable
\* and the deletion of that timetable have both finished, in whatever order
\* their steps were taken, the timetable and all its courses are gone.
C27_DeletionWins ==
    /\ [](\A row \in BagToSet(courses) : Stored(row.timetableId))
    /\ [][\A id \in TimetableIds : Deleted(id) => ~Stored(id)']_vars
    /\ [](\A w \in Workers, c \in Callers :
            (run[w].pc = "done" /\ run[w].timetable # {}
               /\ call[c].pc = "done" /\ call[c].op = "delete" /\ call[c].status = 200
               /\ call[c].timetableId = run[w].timetableId)
              => /\ ~Stored(run[w].timetableId)
                 /\ EntityCourses(run[w].timetableId) = EmptyBag)

\* the timetable was deleted between the deleteMany and the createMany of a
\* run, which then failed
C27_Witness ==
    \E w \in Workers, c \in Callers :
        /\ run[w].pc = "done"
        /\ run[w].timetable # {}
        /\ run[w].fetched # <<>>
        /\ run[w].result = Threw("Foreign key constraint violated")
        /\ call[c].pc = "done" /\ call[c].op = "delete" /\ call[c].status = 200
        /\ call[c].timetableId = run[w].timetableId

\* C28: a step of a run for one timetable, whether it syncs or cleans up,
\* leaves the courses, the credentials, the row (lastSyncedAt included) and
\* the repeatable jobs of every other timetable as they were.
C28_OtherTimetablesUntouched ==
    [][\A w \in Workers :
          run'[w] # run[w] =>
             \A b \in TimetableIds \ {run[w].timetableId, run'[w].timetableId} :
                /\ EntityCourses(b)' = EntityCourses(b)
                /\ {c \in credentials' : c.timetableId = b}
                      = {c \in credentials : c.timetableId = b}
                /\ {t \in timetables' : t.id = b} = {t \in timetables : t.id = b}
                /\ Registrations(b)' = Registrations(b)]_vars

\* a run has replaced the courses of one timetable, or its cleanup has removed
\* the registration of a missing one, while another timetable has courses and
\* a registration
C28_Witness ==
    \E w \in Workers :
        /\ run[w].pc = "done"
        /\ Did(run[w], "deleteMany") \/ run[w].removed # {}
        /\ \E t \in timetables :
              /\ t.id # run[w].timetableId
              /\ EntityCourses(t.id) # EmptyBag
              /\ Registrations(t.id) # {}

\* C30: once POST /api/timetables was accepted, the polling loop of
\* handleAddTimetable eventually exits, by success or by an error.
C30_PollingTerminates ==
    (client.pc \in {"sleeping", "fetching"}) ~> (client.pc \in {"finished", "failed"})

=============================================================================

